---- MODULE Spec2Model ----
(***************************************************************************)
(* Model of wg-ondemand's provisioning orchestration:                      *)
(*   - retry                      (pkg/aws: bounded retry helper)          *)
(*   - AwsProvisioner.DeProvision (three concurrent teardown workers)      *)
(*   - AwsProvisioner.Provision   (bootstrap stack, assets, stack, probe,  *)
(*                                 init script)                            *)
(*   - HetznerProvisioner.Provision / DeProvision                          *)
(*   - RunInitScript, CdkSim.Simulate, the two runShell variants and the   *)
(*     deletions of DeProvision, each followed call by call                *)
(* Each subsystem has its own specification over its own variables; the    *)
(* variables of the other subsystems stay at their initial values.         *)
(***************************************************************************)
EXTENDS Integers, Sequences, FiniteSets, TLC

VARIABLES
    \* ---- retry (one call of retry(f) with a scripted f) ----
    rt,          \* the retry loop's locals: retries, lastError, done, result
    calls,       \* number of invocations of f so far
    forced,      \* f fails on its first `forced` invocations ...
    cancelAt     \* ... and returns context.Canceled on invocation cancelAt (0: never)

VARIABLES
    \* ---- AwsProvisioner.DeProvision ----
    ctx,              \* the caller's context: "active" | "canceled" | "deadline"
    exists,           \* remote: does the resource each teardown task owns still exist
    dpPc,             \* DeProvision's own goroutine: "init" | "wait" | "closed" | "done"
    wk,               \* the three worker goroutines: pc, retry locals, attempts, value sent
    wgCount,          \* sync.WaitGroup counter
    errorsChannel,    \* buffered channel of capacity numThreads
    chClosed,         \* close(errorsChannel) has happened
    errs,             \* the collector's error list
    errsCollectDone,  \* close(errsCollectDone) has happened
    dpResult          \* what DeProvision returned: the joined errors (<<>> is nil)

VARIABLES
    \* ---- AwsProvisioner.Provision ----
    pvPc,         \* position in Provision / provisionStack / waitUntilUp
    phase,        \* which provisionStack call is running: "bootstrap" | "primary"
    stackStatus,  \* remote: CloudFormation status of each stack name
    stackOutputs, \* remote: the Outputs list the primary stack reports
    manifest,     \* cdk.out asset manifest: packaging of each asset file
    preexisting,  \* the stack names in created state when Provision was called
    uploads,      \* remote: the <<asset, destination>> objects put by Simulate
    simulateErr,  \* what cdkSim.Simulate returned (Provision drops it)
    createResp,   \* the response to the last CreateStack, per stack name
    polls,        \* DescribeStacks calls made by the running provisionStack
    apiLog,       \* the calls issued so far, in order
    stackOutput,  \* Provision's local stackOutput map
    elapsed,      \* waitUntilUp: time since it was entered, in 10 s ticks
    lastError,    \* waitUntilUp: lastError
    stdout,       \* what runShell captured from the init script
    pvErr,        \* Provision's returned error ("" is nil)
    pvResult,     \* Provision's returned ProvisionResult
    described,    \* the last DescribeStacks response that listed the stack, and the
                  \* failure reason provisionStack worked out from it
    pvCtx,        \* Provision's ctx: "active" | "canceled"
    lateTurns,    \* poll-loop turns begun after ctx was cancelled
    firstProbe,   \* how waitUntilUp's first probe ended: "none" | "up" | "down"
    shellErr      \* the error runShell returned for the init script ("none": not run)

VARIABLES
    \* ---- HetznerProvisioner ----
    hzPc,        \* position in the running command ("idle", "done" between commands)
    hzToken,     \* HCLOUD_TOKEN is set
    hzServer,    \* remote: the server named id: "absent" | "starting" | "running"
    hzKey,       \* remote: an SSH key named id exists
    hzFirewall,  \* remote: the firewall named id and the WireGuard port of its rules
    hzLog,       \* the running command and the changing calls it issued, in order
    hzTried,     \* DeProvision: the teardown tasks attempted
    hzFailed,    \* DeProvision: the teardown tasks whose lookup or delete failed
    hzRet,       \* DeProvision: the task failures the returned error reports
    hzProbes,    \* Provision: failed readiness probes so far
    hzPolls,     \* Provision: turns of the status loop so far
    hzStdout,    \* Provision: what runShell returned for the init script
    hzErr,       \* the command's returned error ("" is nil)
    hzResult,    \* Provision's returned ProvisionResult
    hzRuns,      \* commands started so far
    hzPrev       \* "provisioned" when the command before this one was a successful Provision

VARIABLES
    \* ---- ProvisionArguments.RunInitScript, called on its own ----
    risPc,       \* "call" | "returned"
    risShell,    \* what runShellFunc returns: [stdout, err]
    risOut,      \* what RunInitScript returned
    risSentinels \* the outputSeparator of each call so far, in order

VARIABLES
    \* ---- CdkSim.Simulate, called on its own ----
    csPc,         \* "start" | "package" | "dest" | "done"
    csManifest,   \* packaging of each asset file of the manifest
    csFiles,      \* the files the loop has not finished
    csCur,        \* the file whose destinations are being served
    csDests,      \* the destinations of csCur not yet served
    csBytes,      \* assetFile: the packaged bytes of csCur
    csPackLog,    \* the files packaged, one entry per packaging
    csPackFailed, \* the files whose packaging failed
    csPuts,       \* remote: the objects put, <<file, destination, bytes>>
    csFailed,     \* the <<file, destination>> whose role or upload failed
    csErr,        \* what Simulate returns
    csRan         \* innerUploadAssets was run

VARIABLES
    \* ---- AwsProvisioner.runShell, called on its own ----
    rsPc,        \* "send" | "poll" | "returned"
    rsRemote,    \* what the command has written: [stdout, stderr]
    rsSeen,      \* the statuses GetCommandInvocation reported, in order
    rsCode,      \* the ResponseCode of the last report
    rsRet        \* what runShell returned: [stdout, stderr, err]

VARIABLES
    \* ---- HetznerProvisioner.runShell, called on its own ----
    shPc,        \* "connect" | "start" | "select" | "returned"
    shCtx,       \* "active" | "canceled"
    shSession,   \* "none" | "running" | "exited" | "closed"
    shWait,      \* what session.Wait returns once the command has exited ("" is nil)
    shGo,        \* the goroutine: "none" | "waiting" | "sending" | "done"
    shBuf,       \* stdoutBuffer and stderrBuffer: [stdout, stderr]
    shEvents,    \* "exit" and "cancel" in the order they happened before the return
    shRet        \* what runShell returned: [isNil, out, err]

VARIABLES
    \* ---- AwsProvisioner.DeProvision request by request ----
    tdBucket,    \* remote: the asset bucket [exists, objects, versions]
    tdStacks,    \* remote: the status of each stack
    tdW,         \* the workers: [pc, rt, res, todo, listed, last]
    tdBLog,      \* the S3 requests of the current deleteBucket call, in order
    tdFaults,    \* requests and deletions that failed so far
    tdFaults0,   \* tdFaults when the current DeProvision was called
    tdAbsent0,   \* bucket and stacks were all absent when it was called
    tdRun,       \* which DeProvision call this is (1, 2, ...)
    tdMain,      \* "running" | "done"
    tdResult     \* the errors DeProvision joined and returned

retryVars == <<rt, calls, forced, cancelAt>>

tdVars == <<tdBucket, tdStacks, tdW, tdBLog, tdFaults, tdFaults0, tdAbsent0, tdRun, tdMain,
            tdResult>>

shVars == <<shPc, shCtx, shSession, shWait, shGo, shBuf, shEvents, shRet>>

rsVars == <<rsPc, rsRemote, rsSeen, rsCode, rsRet>>

\* the variables of the operations modelled call by call
detailVars == <<rsVars, shVars, tdVars>>

csVars == <<csPc, csManifest, csFiles, csCur, csDests, csBytes, csPackLog, csPackFailed,
            csPuts, csFailed, csErr, csRan>>

risVars == <<risPc, risShell, risOut, risSentinels>>

hzVars == <<hzPc, hzToken, hzServer, hzKey, hzFirewall, hzLog, hzTried, hzFailed, hzRet,
            hzProbes, hzPolls, hzStdout, hzErr, hzResult, hzRuns, hzPrev>>

provVars == <<pvPc, phase, stackStatus, stackOutputs, manifest, preexisting, uploads, simulateErr,
              createResp, polls, apiLog, stackOutput, elapsed, lastError, stdout,
              pvErr, pvResult, described, pvCtx, lateTurns, firstProbe, shellErr>>

\* what a DeProvision step leaves alone
notDeProv == <<rt, calls, forced, cancelAt, provVars, hzVars, risVars, csVars, detailVars>>

deProvVars == <<ctx, exists, dpPc, wk, wgCount, errorsChannel, chClosed, errs,
                errsCollectDone, dpResult>>

\* what a step of retry leaves alone
notRetry == <<deProvVars, provVars, hzVars, risVars, csVars, detailVars>>

\* what a step of AWS Provision leaves alone
notProv == <<retryVars, deProvVars, hzVars, risVars, csVars, detailVars>>

\* what a step of the Hetzner provisioner leaves alone
notHz == <<retryVars, deProvVars, provVars, risVars, csVars, detailVars>>

\* what a call of RunInitScript on its own leaves alone
notRis == <<retryVars, deProvVars, provVars, hzVars, csVars, detailVars>>

\* what a step of CdkSim.Simulate on its own leaves alone
notCs == <<retryVars, deProvVars, provVars, hzVars, risVars, detailVars>>

\* what the subsystems other than the call-by-call ones own
coarseVars == <<retryVars, deProvVars, provVars, hzVars, risVars, csVars>>

\* what a step of AwsProvisioner.runShell on its own leaves alone
notRs == <<coarseVars, shVars, tdVars>>

\* what a step of HetznerProvisioner.runShell on its own leaves alone
notSh == <<coarseVars, rsVars, tdVars>>

\* what a step of DeProvision request by request leaves alone
notTd == <<coarseVars, rsVars, shVars>>

vars == <<retryVars, deProvVars, provVars, hzVars, risVars, csVars, detailVars>>

-----------------------------------------------------------------------------
(* Error values.  kind: "nil" | "io" | "canceled" | "deadline"; src: who    *)
(* produced it;                                                            *)
(* n: the invocation that produced it.                                     *)

NilErr == [kind |-> "nil", src |-> "none", n |-> 0]

IoErr(src, k) == [kind |-> "io", src |-> src, n |-> k]

CanceledErr(src, k) == [kind |-> "canceled", src |-> src, n |-> k]

\* context.DeadlineExceeded
DeadlineErr(src, k) == [kind |-> "deadline", src |-> src, n |-> k]

-----------------------------------------------------------------------------
(* retry: for retries := 20; retries > 0; retries-- { ... }                *)

RetryBudget == 20

\* Largest number of forced failures / latest cancelled invocation tried.
MaxForced == 22

LoopCondOffByOne(r) == r > 1

\* the loop condition `retries > 0`
LoopCond(r) == r > 0

IsCanceledNever(err) == FALSE

\* errors.Is(err, context.Canceled)
IsCanceled(err) == err.kind = "canceled"

\* the locals of retry on entry
RetryStart ==
    [retries |-> RetryBudget, lastError |-> NilErr, done |-> FALSE, result |-> NilErr]

\* One iteration of the loop body with err the value f() returned, followed
\* by the sleep, the decrement and the loop test (return lastError when the
\* test fails).
RetryStep(st, err) ==
    IF err.kind = "nil"
    THEN [st EXCEPT !.done = TRUE, !.result = NilErr]
    ELSE IF IsCanceled(err)
    THEN [st EXCEPT !.done = TRUE, !.result = err]
    ELSE IF LoopCond(st.retries - 1)
    THEN [st EXCEPT !.retries = st.retries - 1, !.lastError = err]
    ELSE [st EXCEPT !.retries = st.retries - 1, !.lastError = err,
                    !.done = TRUE, !.result = err]

\* The scripted operation: what invocation k of f returns.
OpOutcome(k) ==
    IF k = cancelAt THEN CanceledErr("op", k)
    ELSE IF k <= forced THEN IoErr("op", k)
    ELSE NilErr

\* The subsystems at rest (the state a specification of another subsystem keeps).
RetryIdle ==
    /\ rt = RetryStart
    /\ calls = 0
    /\ forced = 0
    /\ cancelAt = 0

DeProvIdle ==
    /\ ctx = "active"
    /\ exists = [t \in {"bucket", "bootstrap", "primary"} |-> TRUE]
    /\ dpPc = "init"
    /\ wk = [t \in {"bucket", "bootstrap", "primary"} |->
                [pc |-> "idle", rt |-> RetryStart, tried |-> FALSE, res |-> NilErr]]
    /\ wgCount = 0
    /\ errorsChannel = <<>>
    /\ chClosed = FALSE
    /\ errs = <<>>
    /\ errsCollectDone = FALSE
    /\ dpResult = <<>>

RetryInit ==
    /\ rt = RetryStart
    /\ calls = 0
    /\ forced \in 0..MaxForced
    /\ cancelAt \in 0..MaxForced

\* retry invokes f once more and acts on what it returned.
RetryInvoke ==
    /\ ~rt.done
    /\ LoopCond(rt.retries)
    /\ calls' = calls + 1
    /\ rt' = RetryStep(rt, OpOutcome(calls + 1))
    /\ UNCHANGED <<forced, cancelAt>>
    /\ UNCHANGED notRetry

-----------------------------------------------------------------------------
(* AwsProvisioner.DeProvision: three workers, each wrapping one deletion   *)
(* in retry, report on errorsChannel; a collector drains it into errs.     *)

Tasks == {"bucket", "bootstrap", "primary"}

\* numThreads := 3 (the WaitGroup count and the channel's capacity)
NumThreads == 3

\* What one call of the wrapped deletion (deleteBucket / deleteStack) of task
\* t returns: under a cancelled context every SDK call fails with the
\* context's error; otherwise the backend decides.
AttemptOutcomes(t) ==
    CASE ctx = "canceled" -> {CanceledErr(t, 0)}
      [] ctx = "deadline" -> {DeadlineErr(t, 0)}
      [] OTHER -> {NilErr, IoErr(t, 0)}

CollectInverted(list, err) == IF err = NilErr THEN Append(list, err) ELSE list

\* the collector's loop body: if err != nil { errs = append(errs, err) }
Collect(list, err) == IF err # NilErr THEN Append(list, err) ELSE list

\* errors.Join(errs...): nil values are discarded; no value left is nil
Join(list) == SelectSeq(list, LAMBDA e : e # NilErr)

DeProvInit ==
    /\ ctx = "active"
    /\ exists \in {[t \in Tasks |-> TRUE], [t \in Tasks |-> FALSE]}
    /\ dpPc = "init"
    /\ wk = [t \in Tasks |->
                [pc |-> "idle", rt |-> RetryStart, tried |-> FALSE, res |-> NilErr]]
    /\ wgCount = 0
    /\ errorsChannel = <<>>
    /\ chClosed = FALSE
    /\ errs = <<>>
    /\ errsCollectDone = FALSE
    /\ dpResult = <<>>

\* The caller cancels the context, or its deadline passes (at any time).
CancelCtx ==
    /\ ctx = "active"
    /\ dpPc # "done"
    /\ ctx' \in {"canceled", "deadline"}
    /\ UNCHANGED <<exists, dpPc, wk, wgCount, errorsChannel, chClosed, errs,
                   errsCollectDone, dpResult>>
    /\ UNCHANGED notDeProv

\* initSdkClients fails: DeProvision returns that error, nothing is started.
DpInitFail ==
    /\ dpPc = "init"
    /\ dpPc' = "done"
    /\ dpResult' = <<IoErr("sdk", 0)>>
    /\ UNCHANGED <<ctx, exists, wk, wgCount, errorsChannel, chClosed, errs, errsCollectDone>>
    /\ UNCHANGED notDeProv

\* wg.Add(numThreads), make(chan error, numThreads), the three `go func()`
\* and the collector goroutine; DeProvision then blocks in wg.Wait().
DpSpawn ==
    /\ dpPc = "init"
    /\ dpPc' = "wait"
    /\ wgCount' = NumThreads
    /\ wk' = [t \in Tasks |->
                [wk[t] EXCEPT !.pc = IF t = "bucket" THEN "identity" ELSE "retry"]]
    /\ UNCHANGED <<ctx, exists, errorsChannel, chClosed, errs, errsCollectDone, dpResult>>
    /\ UNCHANGED notDeProv

\* bucket worker: GetCallerIdentity; on error the error itself is what the
\* worker reports (no retry, deleteBucket is never called).
BucketIdentity ==
    /\ wk["bucket"].pc = "identity"
    /\ \E ok \in IF ctx # "active" THEN {FALSE} ELSE BOOLEAN :
          wk' = [wk EXCEPT !["bucket"] =
                    IF ok THEN [@ EXCEPT !.pc = "retry"]
                    ELSE [@ EXCEPT !.pc = "send",
                                   !.res = CASE ctx = "canceled" -> CanceledErr("sts", 0)
                                             [] ctx = "deadline" -> DeadlineErr("sts", 0)
                                             [] OTHER -> IoErr("sts", 0)]]
    /\ UNCHANGED <<ctx, exists, dpPc, wgCount, errorsChannel, chClosed, errs,
                   errsCollectDone, dpResult>>
    /\ UNCHANGED notDeProv

\* retry calls the wrapped deletion once more; a nil return means the
\* resource is gone (deleted now, or found absent).  When retry returns, its
\* locals are gone and its return value is what the worker will send.
WorkerAttempt(t) ==
    /\ wk[t].pc = "retry"
    /\ \E err \in AttemptOutcomes(t) :
          LET st == RetryStep(wk[t].rt, err) IN
          /\ wk' = [wk EXCEPT ![t] =
                       [pc |-> IF st.done THEN "send" ELSE "retry",
                        rt |-> IF st.done THEN RetryStart ELSE st,
                        tried |-> TRUE,
                        res |-> IF st.done THEN st.result ELSE NilErr]]
          /\ exists' = IF err = NilErr THEN [exists EXCEPT ![t] = FALSE] ELSE exists
    /\ UNCHANGED <<ctx, dpPc, wgCount, errorsChannel, chClosed, errs,
                   errsCollectDone, dpResult>>
    /\ UNCHANGED notDeProv

\* errorsChannel <- (the worker's outcome); the buffer holds numThreads values.
WorkerSend(t) ==
    /\ wk[t].pc = "send"
    /\ ~chClosed
    /\ Len(errorsChannel) < NumThreads
    /\ errorsChannel' = Append(errorsChannel, wk[t].res)
    /\ wk' = [wk EXCEPT ![t].pc = "sent"]
    /\ UNCHANGED <<ctx, exists, dpPc, wgCount, chClosed, errs, errsCollectDone, dpResult>>
    /\ UNCHANGED notDeProv

\* defer wg.Done()
WorkerDone(t) ==
    /\ wk[t].pc = "sent"
    /\ wgCount' = wgCount - 1
    /\ wk' = [wk EXCEPT ![t].pc = "exited"]
    /\ UNCHANGED <<ctx, exists, dpPc, errorsChannel, chClosed, errs, errsCollectDone,
                   dpResult>>
    /\ UNCHANGED notDeProv

\* collector: for err := range errorsChannel { ... }
CollectorReceive ==
    /\ dpPc \in {"wait", "closed"}
    /\ errorsChannel # <<>>
    /\ errs' = Collect(errs, Head(errorsChannel))
    /\ errorsChannel' = Tail(errorsChannel)
    /\ UNCHANGED <<ctx, exists, dpPc, wk, wgCount, chClosed, errsCollectDone, dpResult>>
    /\ UNCHANGED notDeProv

\* collector: the range ends on the closed, drained channel; close(errsCollectDone)
CollectorFinish ==
    /\ chClosed
    /\ errorsChannel = <<>>
    /\ ~errsCollectDone
    /\ errsCollectDone' = TRUE
    /\ UNCHANGED <<ctx, exists, dpPc, wk, wgCount, errorsChannel, chClosed, errs, dpResult>>
    /\ UNCHANGED notDeProv

\* close(errorsChannel) without wg.Wait()
DpCloseChannelNoWait ==
    /\ dpPc = "wait"
    /\ chClosed' = TRUE
    /\ dpPc' = "closed"
    /\ UNCHANGED <<ctx, exists, wk, wgCount, errorsChannel, errs, errsCollectDone, dpResult>>
    /\ UNCHANGED notDeProv

\* wg.Wait() returns; close(errorsChannel)
DpCloseChannel ==
    /\ dpPc = "wait"
    /\ wgCount = 0
    /\ chClosed' = TRUE
    /\ dpPc' = "closed"
    /\ UNCHANGED <<ctx, exists, wk, wgCount, errorsChannel, errs, errsCollectDone, dpResult>>
    /\ UNCHANGED notDeProv

\* <-errsCollectDone; return errors.Join(errs...)
DpReturn ==
    /\ dpPc = "closed"
    /\ errsCollectDone
    /\ dpResult' = Join(errs)
    /\ dpPc' = "done"
    /\ UNCHANGED <<ctx, exists, wk, wgCount, errorsChannel, chClosed, errs, errsCollectDone>>
    /\ UNCHANGED notDeProv

-----------------------------------------------------------------------------
(* AwsProvisioner.Provision: bootstrap stack, asset publication, primary   *)
(* stack, readiness probe, init script.                                    *)

StackNames == {"bootstrap", "primary"}

InProgress == {"CREATE_IN_PROGRESS", "ROLLBACK_IN_PROGRESS", "DELETE_IN_PROGRESS"}

\* the statuses on which provisionStack gives up
FailureClass ==
    {"CREATE_FAILED", "ROLLBACK_COMPLETE", "ROLLBACK_FAILED", "DELETE_FAILED",
     "DELETE_COMPLETE"}

\* a stack name CloudFormation knows no live stack for
Gone(s) == s \in {"absent", "DELETE_COMPLETE"}

\* CloudFormation's own progress of a stack between two requests
Succ(s) ==
    CASE s = "CREATE_IN_PROGRESS" -> {"CREATE_COMPLETE", "CREATE_FAILED", "ROLLBACK_IN_PROGRESS"}
      [] s = "ROLLBACK_IN_PROGRESS" -> {"ROLLBACK_COMPLETE", "ROLLBACK_FAILED"}
      [] s = "DELETE_IN_PROGRESS" -> {"DELETE_COMPLETE", "DELETE_FAILED"}
      [] OTHER -> {}

Reach(s) ==
    LET step(S) == S \cup UNION {Succ(x) : x \in S}
    IN  step(step({s}))

\* the responses CreateStack can give for a stack in status s
CreateResponses(s) ==
    IF Gone(s) THEN {"ok", "error"} ELSE {"AlreadyExistsException", "error"}

\* the responses DescribeStacks can give for a stack in status s
DescribeResponses(s) ==
    IF s = "absent" THEN {"error", "empty"} ELSE {"error", "empty", "status"}

TolerateNothing(resp) == FALSE

\* strings.Contains(err.Error(), "AlreadyExistsException")
TolerateCreateError(resp) == resp = "AlreadyExistsException"

\* provisionStack after CreateStack answered resp: return the error, or go
\* on to the poll loop
AfterCreate(resp) ==
    IF resp # "ok" /\ ~TolerateCreateError(resp) THEN "return" ELSE "ps_poll"

\* DeleteStack on a stack in status s (the request succeeding or not)
AfterDelete(s, ok) == IF ok /\ ~Gone(s) THEN "DELETE_IN_PROGRESS" ELSE s

OutputMapKeysOnly(list) == [key \in {list[i].k : i \in DOMAIN list} |-> ""]

\* outputParams[*output.OutputKey] = *output.OutputValue, over the list
OutputMap(list) ==
    [key \in {list[i].k : i \in DOMAIN list} |->
        LET last == CHOOSE i \in DOMAIN list :
                        /\ list[i].k = key
                        /\ \A j \in DOMAIN list : list[j].k = key => j <= i
        IN  list[last].v]

\* a Go map read: the zero value for a missing key
Lookup(m, key) == IF key \in DOMAIN m THEN m[key] ELSE ""

\* the zero address in place of the parsed one
ParseIPZero(text) == ""

\* net.ParseIP: nil (here "") for text that is no IP address
ParseIP(text) == IF text \in {"203.0.113.10", "172.30.0.1"} THEN text ELSE ""

ZeroResult == [ServerIP |-> "", ServerWgIp |-> "", ServerPublicKey |-> ""]

\* args.ServerWgIp as the command line passes it
ArgServerWgIp == "172.30.0.1"

\* the Outputs lists a primary stack may report
OutputLists ==
    {<<[k |-> "InstanceId", v |-> "i-0abc"], [k |-> "ServerIp", v |-> "203.0.113.10"]>>,
     <<[k |-> "InstanceId", v |-> "i-0abc"]>>,
     <<>>}

Assets == {"a1", "a2"}

Dests == {"d1", "d2"}

\* the asset manifests tried: packaging per asset file
Manifests ==
    {[a \in Assets |-> "zip"],
     [a \in Assets |-> IF a = "a1" THEN "file" ELSE "tar"],
     [a \in Assets |-> "tar"]}

\* packageFilesToUpload: "zip" and "file" package, anything else is an error
PackageOk(packaging) == packaging \in {"zip", "file"}

\* innerUploadAssets: every destination of every asset that packaged, except
\* the destinations whose role assumption or PutObject failed
InnerUploadAssets(m, failedDests) ==
    {<<a, d>> : a \in {x \in Assets : PackageOk(m[x])}, d \in Dests \ failedDests}

-----------------------------------------------------------------------------
(* runShell (SSM agent dispatch) and RunInitScript *)

\* how one runShell call ends: SendCommand failed, GetCommandInvocation
\* failed, or the invocation reached a terminal status
ShellKinds ==
    {"SendErr", "GetErr", "Success0", "SuccessNonZero", "Failed", "TimedOut",
     "Cancelling", "Cancelled"}

\* runShell's returned error ("" is nil)
RunShellErr(kind) ==
    CASE kind = "SendErr" -> "send command"
      [] kind = "GetErr" -> "get invocation"
      [] kind = "Success0" -> ""
      [] kind \in {"SuccessNonZero", "Failed"} -> "command failed"
      [] kind = "TimedOut" -> "command timed out"
      [] OTHER -> "command was cancelled"

\* runShell's returned stdout, content being what the command printed
RunShellStdout(kind, content) ==
    IF kind \in {"SendErr", "GetErr"} THEN <<>> ELSE content

\* stdout is a sequence of pieces: free text (no JSON value), the sentinel, a
\* JSON object carrying ServerWgPublicKey, a JSON object without it
Pieces == {"noise", "SEP", "JSONKEY", "JSONNOKEY"}

MaxStdoutLen == 3

StdoutSet == UNION {[1..n -> Pieces] : n \in 0..MaxStdoutLen}

\* a split at the first sentinel only
SplitAfterFirst(text) ==
    IF \A i \in DOMAIN text : text[i] # "SEP" THEN <<text>>
    ELSE LET first == CHOOSE i \in DOMAIN text :
                          text[i] = "SEP" /\ \A j \in 1..(i - 1) : text[j] # "SEP"
         IN  <<SubSeq(text, 1, first), SubSeq(text, first + 1, Len(text))>>

\* strings.SplitAfter(stdout, outputSeparator): the parts, each ending with
\* the separator except the last
RECURSIVE SplitAfter(_)
SplitAfter(text) ==
    IF \A i \in DOMAIN text : text[i] # "SEP" THEN <<text>>
    ELSE LET first == CHOOSE i \in DOMAIN text :
                          text[i] = "SEP" /\ \A j \in 1..(i - 1) : text[j] # "SEP"
         IN  <<SubSeq(text, 1, first)>> \o SplitAfter(SubSeq(text, first + 1, Len(text)))

\* json.Unmarshal into RunInitScriptOutput: one JSON value and nothing else
JsonValid(text) == Len(text) = 1 /\ text[1] \in {"JSONKEY", "JSONNOKEY"}

JsonKeyDropped(text) == ""

JsonKey(text) == IF text = <<"JSONKEY">> THEN "SERVERKEY" ELSE ""

\* RunInitScript with the error of json.Unmarshal dropped
RunInitScriptJsonUnchecked(shell) ==
    IF shell.err # "" THEN [err |-> shell.err, key |-> "", nilOut |-> TRUE]
    ELSE LET parts == SplitAfter(shell.stdout) IN
         IF Len(parts) # 2
         THEN [err |-> "init script did not return expected output", key |-> "",
               nilOut |-> TRUE]
         ELSE [err |-> "", key |-> JsonKey(parts[2]), nilOut |-> FALSE]

\* RunInitScript once runShellFunc returned shell = [stdout, err]
\* nilOut: the returned *RunInitScriptOutput is nil
RunInitScript(shell) ==
    IF shell.err # "" THEN [err |-> shell.err, key |-> "", nilOut |-> TRUE]
    ELSE LET parts == SplitAfter(shell.stdout) IN
         IF Len(parts) # 2
         THEN [err |-> "init script did not return expected output", key |-> "",
               nilOut |-> TRUE]
         ELSE IF JsonValid(parts[2])
              THEN [err |-> "", key |-> JsonKey(parts[2]), nilOut |-> FALSE]
              ELSE [err |-> "json", key |-> "", nilOut |-> FALSE]

\* the errors a runShellFunc may return ("" is nil)
ShellFuncErrs == {"", "command failed"}

NoOut == [err |-> "", key |-> "", nilOut |-> TRUE]

\* var outputSeparator = "93b5...c39f"
outputSeparator == "93b5409013b3265be85973fc8434a05e8f2e31bd9dae057501e704d40a8ac39f"

\* calls of RunInitScript in a row
MaxRisCalls == 2

RisIdle ==
    /\ risPc = "call"
    /\ risShell = [stdout |-> <<>>, err |-> ""]
    /\ risOut = NoOut
    /\ risSentinels = <<>>

\* RunInitScript is about to be called with an executor that will return
\* risShell (no stdout comes with an error here; the callers' executors
\* are modelled with their own returns)
RisInit ==
    /\ risPc = "call"
    /\ risShell \in {sh \in [stdout : StdoutSet, err : ShellFuncErrs] :
                        sh.err # "" => sh.stdout = <<>>}
    /\ risOut = NoOut
    /\ risSentinels = <<>>

\* one call of RunInitScript: the separator is set, put into the script,
\* and the output is split at it
RisCall ==
    /\ risPc = "call"
    /\ risSentinels' = Append(risSentinels, outputSeparator)
    /\ risOut' = RunInitScript(risShell)
    /\ risPc' = "returned"
    /\ UNCHANGED risShell
    /\ UNCHANGED notRis

\* another provisioning run calls RunInitScript
RisAgain ==
    /\ risPc = "returned"
    /\ Len(risSentinels) < MaxRisCalls
    /\ risPc' = "call"
    /\ risShell' \in {sh \in [stdout : StdoutSet, err : ShellFuncErrs] :
                         sh.err # "" => sh.stdout = <<>>}
    /\ risOut' = NoOut
    /\ UNCHANGED risSentinels
    /\ UNCHANGED notRis

\* Provision's callback around runShell: the error is logged and dropped
AwsShellFunc(kind, content) ==
    [stdout |-> RunShellStdout(kind, content), err |-> ""]

\* const timeout = 5 * time.Minute, in ticks of 10 s (the sleep of the loop)
ReadinessTimeout == 30

\* longest runShell probe, in ticks
MaxShellTicks == 2

\* DescribeStacks polls after which the model stops following a stack that
\* stays in progress
MaxPolls == 3

\* loop turns begun after the cancellation that are still counted
MaxLateTurns == 2

\* no DescribeStacks response that lists the stack has been seen
NoDescribe == [status |-> "none", before |-> "none", reason |-> "", outputs |-> <<>>]

\* StackStatusReason of a failed stack: nil (here "") or a text
StatusReasons == {"", "Resource creation cancelled"}

\* the ResourceStatusReason texts of the CREATE_FAILED events of a stack
EventReasonLists == {<<>>, <<"AMI not found">>, <<"AMI not found", "Limit exceeded">>}

\* strings.Join(reasons, ", ")
RECURSIVE JoinReasons(_)
JoinReasons(reasons) ==
    IF reasons = <<>> THEN ""
    ELSE IF Len(reasons) = 1 THEN reasons[1]
    ELSE reasons[1] \o ", " \o JoinReasons(Tail(reasons))

ProvIdle ==
    /\ pvPc = "start"
    /\ phase = "bootstrap"
    /\ stackStatus = [n \in StackNames |-> "absent"]
    /\ stackOutputs = <<>>
    /\ manifest = [a \in Assets |-> "zip"]
    /\ preexisting = {}
    /\ uploads = {}
    /\ simulateErr = ""
    /\ createResp = [n \in StackNames |-> "none"]
    /\ polls = 0
    /\ apiLog = <<>>
    /\ stackOutput = <<>>
    /\ elapsed = 0
    /\ lastError = ""
    /\ stdout = <<>>
    /\ pvErr = ""
    /\ pvResult = ZeroResult
    /\ described = NoDescribe
    /\ pvCtx = "active"
    /\ lateTurns = 0
    /\ firstProbe = "none"
    /\ shellErr = "none"

\* The cloud before Provision is called: each stack absent or left created
\* by an earlier run; the embedded manifest; the outputs the template yields.
ProvInit ==
    /\ pvPc = "start"
    /\ phase = "bootstrap"
    /\ stackStatus \in [StackNames -> {"absent", "CREATE_COMPLETE"}]
    /\ stackOutputs \in OutputLists
    /\ manifest \in Manifests
    /\ preexisting = {n \in StackNames : stackStatus[n] = "CREATE_COMPLETE"}
    /\ uploads = {}
    /\ simulateErr = ""
    /\ createResp = [n \in StackNames |-> "none"]
    /\ polls = 0
    /\ apiLog = <<>>
    /\ stackOutput = <<>>
    /\ elapsed = 0
    /\ lastError = ""
    /\ stdout = <<>>
    /\ pvErr = ""
    /\ pvResult = ZeroResult
    /\ described = NoDescribe
    /\ pvCtx = "active"
    /\ lateTurns = 0
    /\ firstProbe = "none"
    /\ shellErr = "none"

\* return provision.ProvisionResult{}, err
ReturnError(err) ==
    /\ pvPc' = "done"
    /\ pvErr' = err
    /\ pvResult' = ZeroResult

\* what the AWS SDK returns for a request made under ctx: the context's
\* error once ctx is cancelled, else the service's error
ApiError(text) == IF pvCtx = "canceled" THEN "context canceled" ELSE text

\* a request made under ctx can only succeed while ctx is live
ApiOks == IF pvCtx = "canceled" THEN {FALSE} ELSE BOOLEAN

\* one more turn of a poll loop, counted when it starts after the
\* cancellation
LateTurn == IF pvCtx = "canceled" /\ lateTurns < MaxLateTurns THEN lateTurns + 1 ELSE lateTurns

\* the caller cancels ctx while Provision runs
PvCancelCtx ==
    /\ pvPc # "done"
    /\ pvCtx = "active"
    /\ pvCtx' = "canceled"
    /\ UNCHANGED <<pvPc, phase, stackStatus, stackOutputs, manifest, preexisting, uploads,
                   simulateErr, createResp, polls, apiLog, stackOutput, elapsed, lastError,
                   stdout, pvErr, pvResult, described, lateTurns, firstProbe, shellErr>>
    /\ UNCHANGED notProv

\* initSdkClients
PvStart ==
    /\ pvPc = "start"
    /\ \E ok \in BOOLEAN :
          IF ok THEN /\ pvPc' = "ps_create"
                     /\ UNCHANGED <<pvErr, pvResult>>
                ELSE ReturnError("load config")
    /\ UNCHANGED <<phase, stackStatus, stackOutputs, manifest, preexisting, uploads, simulateErr,
                   createResp, polls, apiLog, stackOutput, elapsed, lastError, stdout,
                   described, pvCtx, lateTurns, firstProbe, shellErr>>
    /\ UNCHANGED notProv

\* provisionStack: CreateStack, and the return on an error that is not
\* "already exists"
PsCreate ==
    /\ pvPc = "ps_create"
    /\ \E resp \in (IF pvCtx = "canceled" THEN {"error"}
                    ELSE CreateResponses(stackStatus[phase])) :
          /\ createResp' = [createResp EXCEPT ![phase] = resp]
          /\ stackStatus' = IF resp = "ok"
                            THEN [stackStatus EXCEPT ![phase] = "CREATE_IN_PROGRESS"]
                            ELSE stackStatus
          /\ IF AfterCreate(resp) = "return"
             THEN ReturnError(ApiError("create stack"))
             ELSE /\ pvPc' = "ps_poll"
                  /\ UNCHANGED <<pvErr, pvResult>>
    /\ apiLog' = Append(apiLog, <<"CreateStack", phase>>)
    /\ polls' = 0
    /\ described' = NoDescribe
    /\ UNCHANGED <<phase, stackOutputs, manifest, preexisting, uploads, simulateErr, stackOutput,
                   elapsed, lastError, stdout, pvCtx, lateTurns, firstProbe, shellErr>>
    /\ UNCHANGED notProv

\* provisionStack returned (outputs, removeHandler, nil) to Provision
PsReturnOk(outputs) ==
    IF phase = "bootstrap"
    THEN /\ pvPc' = "assets"
         /\ UNCHANGED stackOutput
    ELSE /\ pvPc' = "wait_up"
         /\ stackOutput' = outputs

RemoveHandlerSkipped(log, name) == log

\* removeHandler(): one DeleteStack request for the stack
RemoveHandler(log, name) == Append(log, <<"DeleteStack", name>>)

\* the reason provisionStack works out for a failed stack: the stack's
\* StackStatusReason when it is set, else the CREATE_FAILED events' reasons
\* joined with ", ", else (DescribeStackEvents failed) nothing
FailureReason(statusReason, eventsOk, eventReasons) ==
    IF statusReason # "" THEN statusReason
    ELSE IF eventsOk THEN JoinReasons(eventReasons)
    ELSE ""

\* errors.New("stack creation failed"): the reason is logged, not returned
StackFailedError(reason) == "stack creation failed"

\* provisionStack: one turn of the poll loop (sleep, DescribeStacks, and what
\* follows from the answer).  cur is the stack's status when the request is
\* served; delOk whether removeHandler's DeleteStack succeeds.
PsPoll ==
    /\ pvPc = "ps_poll"
    /\ lateTurns' = LateTurn
    /\ \E cur \in Reach(stackStatus[phase]), delOk \in ApiOks :
       \E resp \in (IF pvCtx = "canceled" THEN {"error"} ELSE DescribeResponses(cur)) :
          CASE resp = "error" ->
                  /\ stackStatus' = [stackStatus EXCEPT ![phase] = AfterDelete(cur, delOk)]
                  /\ apiLog' = RemoveHandler(apiLog, phase)
                  /\ ReturnError(ApiError("describe stacks"))
                  /\ polls' = 0
                  /\ UNCHANGED <<stackOutput, phase, described>>
            [] resp = "empty" ->
                  /\ polls < MaxPolls
                  /\ delOk
                  /\ stackStatus' = [stackStatus EXCEPT ![phase] = cur]
                  /\ polls' = polls + 1
                  /\ UNCHANGED <<apiLog, stackOutput, phase, pvPc, pvErr, pvResult, described>>
            [] resp = "status" /\ cur = "CREATE_COMPLETE" ->
                  /\ delOk
                  /\ stackStatus' = [stackStatus EXCEPT ![phase] = cur]
                  /\ described' = [status |-> cur, before |-> described.status, reason |-> "",
                                   outputs |-> stackOutputs]
                  /\ PsReturnOk(IF phase = "primary" THEN OutputMap(stackOutputs) ELSE <<>>)
                  /\ phase' = phase
                  /\ polls' = 0
                  /\ UNCHANGED <<apiLog, pvErr, pvResult>>
            [] resp = "status" /\ cur \in FailureClass ->
                  \E statusReason \in StatusReasons, eventsOk \in BOOLEAN,
                     eventReasons \in EventReasonLists :
                  /\ (statusReason # "") => (eventsOk /\ eventReasons = <<>>)
                  /\ (~eventsOk) => (eventReasons = <<>>)
                  /\ stackStatus' = [stackStatus EXCEPT ![phase] = AfterDelete(cur, delOk)]
                  /\ described' = [status |-> cur, before |-> described.status,
                                   reason |-> FailureReason(statusReason, eventsOk, eventReasons),
                                   outputs |-> <<>>]
                  /\ apiLog' = RemoveHandler(apiLog, phase)
                  /\ ReturnError(StackFailedError(
                                    FailureReason(statusReason, eventsOk, eventReasons)))
                  /\ polls' = 0
                  /\ UNCHANGED <<stackOutput, phase>>
            [] OTHER ->
                  /\ polls < MaxPolls
                  /\ delOk
                  /\ stackStatus' = [stackStatus EXCEPT ![phase] = cur]
                  /\ described' = [status |-> cur, before |-> described.status, reason |-> "",
                                   outputs |-> <<>>]
                  /\ polls' = polls + 1
                  /\ UNCHANGED <<apiLog, stackOutput, phase, pvPc, pvErr, pvResult>>
    /\ UNCHANGED <<stackOutputs, manifest, preexisting, uploads, simulateErr, createResp, elapsed,
                   lastError, stdout, pvCtx, firstProbe, shellErr>>
    /\ UNCHANGED notProv

\* cdkSim.Simulate(ctx, p.stsClient): its error is not looked at.  roleOk:
\* the manifest-level role can be assumed; failedDests: the destinations
\* whose role assumption or upload fails.
PvAssets ==
    /\ pvPc = "assets"
    /\ \E roleOk \in ApiOks, failedDests \in SUBSET Dests :
          IF roleOk
          THEN /\ uploads' = uploads \cup InnerUploadAssets(manifest, failedDests)
               /\ simulateErr' = ""
          ELSE /\ failedDests = {}
               /\ uploads' = uploads
               /\ simulateErr' = ApiError("assume role")
    /\ apiLog' = Append(apiLog, <<"Simulate", "assets">>)
    /\ pvPc' = "ps_create"
    /\ phase' = "primary"
    /\ UNCHANGED <<stackStatus, stackOutputs, manifest, preexisting, createResp, polls, stackOutput,
                   elapsed, lastError, stdout, pvErr, pvResult, described, pvCtx, lateTurns, firstProbe, shellErr>>
    /\ UNCHANGED notProv

\* the error returned with removeHandler() left out
FailWithoutCleanup(err, delOk) ==
    /\ ReturnError(err)
    /\ UNCHANGED <<stackStatus, apiLog>>

\* removeHandler() of the primary stack, then return the error
CleanupAndFail(err, delOk) ==
    /\ stackStatus' = [stackStatus EXCEPT !["primary"] = AfterDelete(@, delOk)]
    /\ apiLog' = RemoveHandler(apiLog, "primary")
    /\ ReturnError(err)

\* waitUntilUp: time.Now().After(timeoutTime) at the top of the loop
PvWaitUpTimeout ==
    /\ pvPc = "wait_up"
    /\ elapsed > ReadinessTimeout
    /\ \E delOk \in ApiOks :
          CleanupAndFail(IF lastError = "" THEN "timeout" ELSE "timeout: " \o lastError, delOk)
    /\ elapsed' = 0
    /\ lastError' = ""
    /\ UNCHANGED <<phase, stackOutputs, manifest, preexisting, uploads, simulateErr, createResp, polls,
                   stackOutput, stdout, described, pvCtx, lateTurns, firstProbe, shellErr>>
    /\ UNCHANGED notProv

\* waitUntilUp: one probe, runShell(ctx, instanceId, "printf 1"), which takes
\* ticks of time when the command was sent, then the 10 s sleep
PvWaitUpProbe ==
    /\ pvPc = "wait_up"
    /\ ~(elapsed > ReadinessTimeout)
    /\ lateTurns' = LateTurn
    /\ \E kind \in (IF pvCtx = "canceled" THEN {"SendErr"} ELSE ShellKinds),
          ticks \in 1..MaxShellTicks :
          LET out == RunShellStdout(kind, IF kind = "Success0" THEN <<"1">> ELSE <<>>)
              err == ApiError(RunShellErr(kind))
          IN  /\ firstProbe' = IF firstProbe # "none" THEN firstProbe
                                ELSE IF out = <<"1">> THEN "up" ELSE "down"
              /\ IF out = <<"1">>
                 THEN /\ ticks = 1
                      /\ pvPc' = "init_script"
                      /\ elapsed' = 0
                      /\ lastError' = ""
                 ELSE /\ (kind = "SendErr") => (ticks = 1)
                      /\ pvPc' = "wait_up"
                      /\ elapsed' = elapsed + (IF kind = "SendErr" THEN 0 ELSE ticks) + 1
                      /\ lastError' = IF RunShellErr(kind) # "" THEN err ELSE lastError
    /\ UNCHANGED <<phase, stackStatus, stackOutputs, manifest, preexisting, uploads, simulateErr,
                   createResp, polls, apiLog, stackOutput, stdout, pvErr, pvResult, described,
                   pvCtx, shellErr>>
    /\ UNCHANGED notProv

\* args.RunInitScript with the callback around runShell, and the return
PvInitScript ==
    /\ pvPc = "init_script"
    /\ \E kind \in (IF pvCtx = "canceled" THEN {"SendErr"} ELSE ShellKinds),
          content \in StdoutSet, delOk \in ApiOks :
          LET shell == AwsShellFunc(kind, content)
              out == RunInitScript(shell)
          IN  /\ (kind \in {"SendErr", "GetErr"}) => (content = <<>>)
              /\ stdout' = shell.stdout
              /\ shellErr' = ApiError(RunShellErr(kind))
              /\ IF out.err # ""
                 THEN CleanupAndFail(out.err, delOk)
                 ELSE /\ delOk
                      /\ pvPc' = "done"
                      /\ pvErr' = ""
                      /\ pvResult' = [ServerIP |-> ParseIP(Lookup(stackOutput, "ServerIp")),
                                      ServerWgIp |-> ArgServerWgIp,
                                      ServerPublicKey |-> out.key]
                      /\ apiLog' = Append(apiLog, <<"RunInitScript", "primary">>)
                      /\ UNCHANGED stackStatus
    /\ UNCHANGED <<phase, stackOutputs, manifest, preexisting, uploads, simulateErr, createResp, polls,
                   stackOutput, elapsed, lastError, described, pvCtx, lateTurns, firstProbe>>
    /\ UNCHANGED notProv

-----------------------------------------------------------------------------
(* HetznerProvisioner: Provision and DeProvision against the Hetzner API,   *)
(* called one after the other by the command line.                         *)

HzTasks == {"server", "sshkey"}

\* how one runShell call (SSH session) ends
HzShellKinds == {"DialErr", "StartErr", "WaitErr", "Canceled", "Ok"}

\* HetznerProvisioner.runShell: (nil, err) on every failure, the captured
\* stdout only when the session ended without error
HzRunShell(kind, content) ==
    IF kind = "Ok" THEN [stdout |-> content, err |-> ""]
    ELSE [stdout |-> <<>>, err |-> kind]

\* time.Sleep(5 * time.Second) of the readiness loop, in seconds
HzProbeSleep == 5

\* failed readiness probes after which the model stops following the loop
MaxHzProbes == 62

\* commands run one after the other
MaxRuns == 2

\* --port, default 51820
ArgWgPort == 51820

HzIdle ==
    /\ hzPc = "idle"
    /\ hzToken = TRUE
    /\ hzServer = "absent"
    /\ hzKey = FALSE
    /\ hzFirewall = [present |-> FALSE, port |-> 0]
    /\ hzLog = <<>>
    /\ hzTried = {}
    /\ hzFailed = {}
    /\ hzRet = {}
    /\ hzProbes = 0
    /\ hzPolls = 0
    /\ hzStdout = <<>>
    /\ hzErr = ""
    /\ hzResult = ZeroResult
    /\ hzRuns = 0
    /\ hzPrev = "none"

\* The account before the first command: resources of the name id left by an
\* earlier run or not; HCLOUD_TOKEN set or not.
HzInit ==
    /\ hzPc = "idle"
    /\ hzToken \in BOOLEAN
    /\ hzServer \in {"absent", "running"}
    /\ hzKey \in BOOLEAN
    /\ hzFirewall \in {[present |-> FALSE, port |-> 0], [present |-> TRUE, port |-> 40000]}
    /\ hzLog = <<>>
    /\ hzTried = {}
    /\ hzFailed = {}
    /\ hzRet = {}
    /\ hzProbes = 0
    /\ hzPolls = 0
    /\ hzStdout = <<>>
    /\ hzErr = ""
    /\ hzResult = ZeroResult
    /\ hzRuns = 0
    /\ hzPrev = "none"

\* the command returns err and, for Provision, the empty result
HzReturn(err) ==
    /\ hzPc' = "done"
    /\ hzErr' = err
    /\ hzResult' = ZeroResult

\* the locals every step but the readiness and status loops leaves alone
HzKeep == UNCHANGED <<hzToken, hzProbes, hzPolls, hzStdout, hzRuns, hzPrev>>

\* wg-ondemand deploy|delete --type hetzner: Provision or DeProvision starts
HzCall(cmd) ==
    /\ hzPc \in {"idle", "done"}
    /\ hzRuns < MaxRuns
    /\ hzPc' = IF cmd = "provision" THEN "p_init" ELSE "d_init"
    /\ hzPrev' = IF hzPc = "done" /\ hzErr = "" /\ hzLog # <<>> /\ hzLog[1] = "Provision"
                 THEN "provisioned" ELSE "none"
    /\ hzRuns' = hzRuns + 1
    /\ hzLog' = <<IF cmd = "provision" THEN "Provision" ELSE "DeProvision">>
    /\ hzTried' = {}
    /\ hzFailed' = {}
    /\ hzRet' = {}
    /\ hzProbes' = 0
    /\ hzPolls' = 0
    /\ hzStdout' = <<>>
    /\ hzErr' = ""
    /\ hzResult' = ZeroResult
    /\ UNCHANGED <<hzToken, hzServer, hzKey, hzFirewall>>
    /\ UNCHANGED notHz

\* p.init(): HCLOUD_TOKEN must be set
HzPInit ==
    /\ hzPc = "p_init"
    /\ IF hzToken THEN /\ hzPc' = "p_key"
                       /\ UNCHANGED <<hzErr, hzResult>>
                  ELSE HzReturn("HCLOUD_TOKEN not set")
    /\ UNCHANGED <<hzServer, hzKey, hzFirewall, hzLog, hzTried, hzFailed, hzRet>>
    /\ HzKeep
    /\ UNCHANGED notHz

\* createSshKey: look the key up, delete it when it exists (the result of
\* the delete is not looked at), create it.  A key still there makes the
\* create fail (the name is taken).
HzPKey ==
    /\ hzPc = "p_key"
    /\ \E lookupOk \in BOOLEAN, delOk \in BOOLEAN, createOk \in BOOLEAN :
          IF ~lookupOk
          THEN /\ delOk /\ createOk
               /\ HzReturn("ssh key lookup")
               /\ UNCHANGED <<hzKey, hzLog>>
          ELSE LET left == hzKey /\ ~delOk
                   log1 == IF hzKey THEN Append(hzLog, "SSHKey.Delete") ELSE hzLog
               IN  /\ (~hzKey) => delOk
                   /\ left => ~createOk
                   /\ hzLog' = Append(log1, "SSHKey.Create")
                   /\ IF createOk
                      THEN /\ hzKey' = TRUE
                           /\ hzPc' = "p_firewall"
                           /\ UNCHANGED <<hzErr, hzResult>>
                      ELSE /\ hzKey' = left
                           /\ HzReturn("ssh key create")
    /\ UNCHANGED <<hzServer, hzFirewall, hzTried, hzFailed, hzRet>>
    /\ HzKeep
    /\ UNCHANGED notHz

\* Firewall.Update(ctx, firewall, FirewallUpdateOpts{}): the options carry
\* no rules, the firewall's rules stay what they were
FirewallAfterUpdate(fw, port) == fw

\* Firewall.Create with the two rules computed for this run
FirewallAfterCreate(port) == [present |-> TRUE, port |-> port]

\* createOrUpdateFirewall
HzPFirewall ==
    /\ hzPc = "p_firewall"
    /\ \E lookupOk \in BOOLEAN, opOk \in BOOLEAN :
          IF ~lookupOk
          THEN /\ opOk
               /\ HzReturn("firewall lookup")
               /\ UNCHANGED <<hzFirewall, hzLog>>
          ELSE /\ hzLog' = Append(hzLog, IF hzFirewall.present THEN "Firewall.Update"
                                                              ELSE "Firewall.Create")
               /\ IF opOk
                  THEN /\ hzFirewall' = IF hzFirewall.present
                                        THEN FirewallAfterUpdate(hzFirewall, ArgWgPort)
                                        ELSE FirewallAfterCreate(ArgWgPort)
                       /\ hzPc' = "p_server"
                       /\ UNCHANGED <<hzErr, hzResult>>
                  ELSE /\ UNCHANGED hzFirewall
                       /\ HzReturn("firewall")
    /\ UNCHANGED <<hzServer, hzKey, hzTried, hzFailed, hzRet>>
    /\ HzKeep
    /\ UNCHANGED notHz

\* createOrRecreateServer: look the server up, delete it when it exists,
\* create it
HzPServer ==
    /\ hzPc = "p_server"
    /\ \E lookupOk \in BOOLEAN, delOk \in BOOLEAN, createOk \in BOOLEAN :
          IF ~lookupOk
          THEN /\ delOk /\ createOk
               /\ HzReturn("server lookup")
               /\ UNCHANGED <<hzServer, hzLog>>
          ELSE IF hzServer # "absent" /\ ~delOk
          THEN /\ createOk
               /\ hzLog' = Append(hzLog, "Server.Delete")
               /\ HzReturn("server delete")
               /\ UNCHANGED hzServer
          ELSE /\ (hzServer = "absent") => delOk
               /\ hzLog' = Append(IF hzServer # "absent"
                                  THEN Append(hzLog, "Server.Delete") ELSE hzLog,
                                  "Server.Create")
               /\ IF createOk
                  THEN /\ hzServer' = "starting"
                       /\ hzPc' = "p_status"
                       /\ UNCHANGED <<hzErr, hzResult>>
                  ELSE /\ hzServer' = "absent"
                       /\ HzReturn("server create")
    /\ UNCHANGED <<hzKey, hzFirewall, hzTried, hzFailed, hzRet>>
    /\ HzKeep
    /\ UNCHANGED notHz

\* the status loop: Server.GetByName until the server is running
HzPStatus ==
    /\ hzPc = "p_status"
    /\ \E getOk \in BOOLEAN, cur \in {hzServer, "running"} :
          IF ~getOk
          THEN /\ cur = hzServer
               /\ HzReturn("server get")
               /\ UNCHANGED <<hzServer, hzPolls>>
          ELSE /\ hzServer' = cur
               /\ UNCHANGED <<hzErr, hzResult>>
               /\ IF cur = "running"
                  THEN /\ hzPc' = "p_ready"
                       /\ hzPolls' = 0
                  ELSE /\ hzPolls < MaxPolls
                       /\ hzPc' = "p_status"
                       /\ hzPolls' = hzPolls + 1
    /\ UNCHANGED <<hzKey, hzFirewall, hzLog, hzTried, hzFailed, hzRet, hzToken, hzProbes,
                   hzStdout, hzRuns, hzPrev>>
    /\ UNCHANGED notHz

\* the readiness loop: runShell(ctx, server, "echo 1") until it returns no
\* error, sleeping 5 s after each failure
HzPReady ==
    /\ hzPc = "p_ready"
    /\ \E kind \in HzShellKinds :
          IF HzRunShell(kind, <<"1">>).err = ""
          THEN /\ hzPc' = "p_script"
               /\ hzProbes' = 0
          ELSE /\ hzProbes < MaxHzProbes
               /\ hzPc' = "p_ready"
               /\ hzProbes' = hzProbes + 1
    /\ UNCHANGED <<hzServer, hzKey, hzFirewall, hzLog, hzTried, hzFailed, hzRet, hzToken,
                   hzPolls, hzStdout, hzErr, hzResult, hzRuns, hzPrev>>
    /\ UNCHANGED notHz

\* args.RunInitScript with runShell as the callback, and the return
HzPScript ==
    /\ hzPc = "p_script"
    /\ \E kind \in HzShellKinds, content \in StdoutSet :
          LET shell == HzRunShell(kind, content)
              out == RunInitScript(shell)
          IN  /\ (kind # "Ok") => (content = <<>>)
              /\ hzStdout' = shell.stdout
              /\ IF out.err # ""
                 THEN HzReturn(out.err)
                 ELSE /\ hzPc' = "done"
                      /\ hzErr' = ""
                      /\ hzResult' = [ServerIP |-> "203.0.113.10",
                                      ServerWgIp |-> ArgServerWgIp,
                                      ServerPublicKey |-> out.key]
    /\ UNCHANGED <<hzServer, hzKey, hzFirewall, hzLog, hzTried, hzFailed, hzRet, hzToken,
                   hzProbes, hzPolls, hzRuns, hzPrev>>
    /\ UNCHANGED notHz

\* DeProvision: p.init()
HzDInit ==
    /\ hzPc = "d_init"
    /\ IF hzToken THEN /\ hzPc' = "d_server"
                       /\ UNCHANGED <<hzErr, hzResult>>
                  ELSE HzReturn("HCLOUD_TOKEN not set")
    /\ UNCHANGED <<hzServer, hzKey, hzFirewall, hzLog, hzTried, hzFailed, hzRet>>
    /\ HzKeep
    /\ UNCHANGED notHz

\* DeProvision: the server.  A failed lookup is passed over; a failed delete
\* is returned at once.
HzDServer ==
    /\ hzPc = "d_server"
    /\ hzTried' = hzTried \cup {"server"}
    /\ \E lookupOk \in BOOLEAN, delOk \in BOOLEAN :
          IF ~lookupOk
          THEN /\ delOk
               /\ hzFailed' = hzFailed \cup {"server"}
               /\ hzPc' = "d_key"
               /\ UNCHANGED <<hzServer, hzLog, hzRet, hzErr, hzResult>>
          ELSE IF hzServer = "absent"
          THEN /\ delOk
               /\ hzPc' = "d_key"
               /\ UNCHANGED <<hzServer, hzLog, hzFailed, hzRet, hzErr, hzResult>>
          ELSE /\ hzLog' = Append(hzLog, "Server.Delete")
               /\ IF delOk
                  THEN /\ hzServer' = "absent"
                       /\ hzPc' = "d_key"
                       /\ UNCHANGED <<hzFailed, hzRet, hzErr, hzResult>>
                  ELSE /\ hzFailed' = hzFailed \cup {"server"}
                       /\ hzRet' = hzRet \cup {"server"}
                       /\ HzReturn("server delete")
                       /\ UNCHANGED hzServer
    /\ UNCHANGED <<hzKey, hzFirewall>>
    /\ HzKeep
    /\ UNCHANGED notHz

\* DeProvision: the SSH key, in the same way; then return nil
HzDKey ==
    /\ hzPc = "d_key"
    /\ hzTried' = hzTried \cup {"sshkey"}
    /\ \E lookupOk \in BOOLEAN, delOk \in BOOLEAN :
          IF ~lookupOk
          THEN /\ delOk
               /\ hzFailed' = hzFailed \cup {"sshkey"}
               /\ HzReturn("")
               /\ UNCHANGED <<hzKey, hzLog, hzRet>>
          ELSE IF ~hzKey
          THEN /\ delOk
               /\ HzReturn("")
               /\ UNCHANGED <<hzKey, hzLog, hzFailed, hzRet>>
          ELSE /\ hzLog' = Append(hzLog, "SSHKey.Delete")
               /\ IF delOk
                  THEN /\ hzKey' = FALSE
                       /\ HzReturn("")
                       /\ UNCHANGED <<hzFailed, hzRet>>
                  ELSE /\ hzFailed' = hzFailed \cup {"sshkey"}
                       /\ hzRet' = hzRet \cup {"sshkey"}
                       /\ HzReturn("ssh key delete")
                       /\ UNCHANGED hzKey
    /\ UNCHANGED <<hzServer, hzFirewall>>
    /\ HzKeep
    /\ UNCHANGED notHz

-----------------------------------------------------------------------------
(* CdkSim.Simulate: uploadAssets and innerUploadAssets, file by file and    *)
(* destination by destination.                                             *)

\* what packageFilesToUpload returns for an asset that packages: the zip of
\* its directory or the file's content
PackageBytes(packaging, a) == <<packaging, a>>

NoBytes == <<>>

DestsLeftNone(dests, d) == {}

\* the destinations loop goes on with the next destination whatever the
\* outcome for d was
DestsLeft(dests, d) == dests \ {d}

FilesLeftNone(files, a) == {}

\* the files loop goes on with the next file when packaging a failed
\* (continue)
FilesLeft(files, a) == files \ {a}

CsIdle ==
    /\ csPc = "start"
    /\ csManifest = [a \in Assets |-> "zip"]
    /\ csFiles = Assets
    /\ csCur = "none"
    /\ csDests = {}
    /\ csBytes = NoBytes
    /\ csPackLog = <<>>
    /\ csPackFailed = {}
    /\ csPuts = {}
    /\ csFailed = {}
    /\ csErr = ""
    /\ csRan = FALSE

\* Simulate is called with an embedded asset manifest
CsInit ==
    /\ csPc = "start"
    /\ csManifest \in Manifests
    /\ csFiles = Assets
    /\ csCur = "none"
    /\ csDests = {}
    /\ csBytes = NoBytes
    /\ csPackLog = <<>>
    /\ csPackFailed = {}
    /\ csPuts = {}
    /\ csFailed = {}
    /\ csErr = ""
    /\ csRan = FALSE

\* uploadAssets: assumeRoleStsClient hands the callback to AssumeRole as an
\* option function and returns AssumeRole's error.  With the role assumed
\* the callback has run; with the request failed the SDK may or may not
\* have run it (ran).
CsStart ==
    /\ csPc = "start"
    /\ \E roleOk \in BOOLEAN, ran \in BOOLEAN :
          /\ roleOk => ran
          /\ csErr' = IF roleOk THEN "" ELSE "assume role"
          /\ csRan' = ran
          /\ csPc' = IF ran THEN "package" ELSE "done"
    /\ UNCHANGED <<csManifest, csFiles, csCur, csDests, csBytes, csPackLog, csPackFailed,
                   csPuts, csFailed>>
    /\ UNCHANGED notCs

\* innerUploadAssets: the next file of the manifest (a Go map, any order) is
\* packaged; on an error the loop continues with the next file.  readOk:
\* the embedded file or directory can be read.
CsPackage ==
    /\ csPc = "package"
    /\ csFiles # {}
    /\ \E a \in csFiles, readOk \in BOOLEAN :
          IF PackageOk(csManifest[a]) /\ readOk
          THEN /\ csCur' = a
               /\ csBytes' = PackageBytes(csManifest[a], a)
               /\ csPackLog' = Append(csPackLog, a)
               /\ csDests' = Dests
               /\ csPc' = "dest"
               /\ UNCHANGED <<csFiles, csPackFailed>>
          ELSE /\ (~PackageOk(csManifest[a])) => readOk
               /\ csPackFailed' = csPackFailed \cup {a}
               /\ csFiles' = FilesLeft(csFiles, a)
               /\ UNCHANGED <<csCur, csBytes, csPackLog, csDests, csPc>>
    /\ UNCHANGED <<csManifest, csPuts, csFailed, csErr, csRan>>
    /\ UNCHANGED notCs

\* innerUploadAssets: one destination of the current file:
\* assumeRoleS3Client with the PutObject callback; an error is logged.
CsDest ==
    /\ csPc = "dest"
    /\ csDests # {}
    /\ \E d \in csDests, roleOk \in BOOLEAN, ran \in BOOLEAN, putOk \in BOOLEAN :
          /\ roleOk => ran
          /\ (~ran) => putOk
          /\ csPuts' = IF ran /\ putOk THEN csPuts \cup {<<csCur, d, csBytes>>} ELSE csPuts
          /\ csFailed' = IF roleOk /\ putOk THEN csFailed ELSE csFailed \cup {<<csCur, d>>}
          /\ csDests' = DestsLeft(csDests, d)
    /\ UNCHANGED <<csPc, csManifest, csFiles, csCur, csBytes, csPackLog, csPackFailed, csErr,
                   csRan>>
    /\ UNCHANGED notCs

\* innerUploadAssets: the destinations loop of the current file is over
CsNextFile ==
    /\ csPc = "dest"
    /\ csDests = {}
    /\ csFiles' = csFiles \ {csCur}
    /\ csCur' = "none"
    /\ csBytes' = NoBytes
    /\ csPc' = "package"
    /\ UNCHANGED <<csManifest, csDests, csPackLog, csPackFailed, csPuts, csFailed, csErr, csRan>>
    /\ UNCHANGED notCs

\* innerUploadAssets returns when no file is left; Simulate returns csErr
CsReturn ==
    /\ csPc = "package"
    /\ csFiles = {}
    /\ csPc' = "done"
    /\ UNCHANGED <<csManifest, csFiles, csCur, csDests, csBytes, csPackLog, csPackFailed,
                   csPuts, csFailed, csErr, csRan>>
    /\ UNCHANGED notCs

-----------------------------------------------------------------------------
(* AwsProvisioner.runShell call by call: SendCommand, then a               *)
(* GetCommandInvocation every 10 s until a status the code returns on.     *)

\* ssmTypes.CommandInvocationStatus
RsStatuses ==
    {"Pending", "InProgress", "Delayed", "Success", "Cancelled", "TimedOut", "Failed",
     "Cancelling"}

\* ResponseCode: -1 while the command has not ended
RsCodes == {-1, 0, 1}

\* what the command may have written to stdout and stderr
RsStdouts == {"", "1", "out"}

RsStderrs == {"", "oops"}

\* polls after which the model stops following a command that does not end
MaxRsPolls == 3

RsReturnsOnNoCancelling(status) ==
    status \in {"Success", "Failed", "TimedOut", "Cancelled"}

\* the statuses the if-chain of the poll loop returns on
RsReturnsOn(status) ==
    status \in {"Success", "Failed", "TimedOut", "Cancelling", "Cancelled"}

\* the error returned with a report the loop returns on ("" is nil)
RsErrOf(status, code) ==
    CASE status = "Success" /\ code # 0 -> "command failed"
      [] status = "Success" -> ""
      [] status = "Failed" -> "command failed"
      [] status = "TimedOut" -> "command timed out"
      [] OTHER -> "command was cancelled"

RsNoRet == [stdout |-> "", stderr |-> "", err |-> ""]

RsIdle ==
    /\ rsPc = "send"
    /\ rsRemote = [stdout |-> "", stderr |-> ""]
    /\ rsSeen = <<>>
    /\ rsCode = -1
    /\ rsRet = RsNoRet


\* runShell is called with a script whose output is rsRemote
RsInit ==
    /\ rsPc = "send"
    /\ rsRemote \in [stdout : RsStdouts, stderr : RsStderrs]
    /\ rsSeen = <<>>
    /\ rsCode = -1
    /\ rsRet = RsNoRet

\* SendCommand; on an error runShell returns "", "", err
RsSend ==
    /\ rsPc = "send"
    /\ \E ok \in BOOLEAN :
          IF ok
          THEN /\ rsPc' = "poll"
               /\ UNCHANGED rsRet
          ELSE /\ rsPc' = "returned"
               /\ rsRet' = [stdout |-> "", stderr |-> "", err |-> "send command"]
    /\ UNCHANGED <<rsRemote, rsSeen, rsCode>>
    /\ UNCHANGED notRs

\* one turn of the loop: the 10 s sleep, GetCommandInvocation, the if-chain
RsPoll ==
    /\ rsPc = "poll"
    /\ \E ok \in BOOLEAN, status \in RsStatuses, code \in RsCodes :
          IF ~ok
          THEN /\ status = "Pending" /\ code = -1
               /\ rsPc' = "returned"
               /\ rsRet' = [stdout |-> "", stderr |-> "", err |-> "get invocation"]
               /\ UNCHANGED <<rsSeen, rsCode>>
          ELSE /\ rsSeen' = Append(rsSeen, status)
               /\ rsCode' = code
               /\ IF RsReturnsOn(status)
                  THEN /\ rsPc' = "returned"
                       /\ rsRet' = [stdout |-> rsRemote.stdout, stderr |-> rsRemote.stderr,
                                    err |-> RsErrOf(status, code)]
                  ELSE /\ Len(rsSeen) < MaxRsPolls
                       /\ UNCHANGED <<rsPc, rsRet>>
    /\ UNCHANGED rsRemote
    /\ UNCHANGED notRs

-----------------------------------------------------------------------------
(* HetznerProvisioner.runShell step by step: the SSH connection, the       *)
(* session, the goroutine that waits for it and the select against ctx.    *)

\* what the command may write, piece by piece
ShChunks == {"a", "b"}

\* pieces after which the model stops following the command's output
MaxShOut == 2

\* what session.Wait may return ("" is nil)
ShWaitErrs == {"", "exit status 1"}

ShNoRet == [isNil |-> TRUE, out |-> <<>>, err |-> ""]

\* return nil, err
ShFail(err) == [isNil |-> TRUE, out |-> <<>>, err |-> err]

\* the cases of the select that can proceed
ShReady(ctxState, go) ==
    (IF ctxState = "canceled" THEN {"ctx"} ELSE {}) \cup (IF go = "sending" THEN {"done"} ELSE {})

ShSelectErrAlwaysWait(case, waitErr) == waitErr

\* err after the select: ctx.Err() or what doneChan delivered
ShSelectErr(case, waitErr) == IF case = "ctx" THEN "context canceled" ELSE waitErr

ShIdle ==
    /\ shPc = "connect"
    /\ shCtx = "active"
    /\ shSession = "none"
    /\ shWait = ""
    /\ shGo = "none"
    /\ shBuf = [stdout |-> <<>>, stderr |-> <<>>]
    /\ shEvents = <<>>
    /\ shRet = ShNoRet


\* runShell is called; ctx may be cancelled already
ShInit ==
    /\ shPc = "connect"
    /\ shCtx \in {"active", "canceled"}
    /\ shSession = "none"
    /\ shWait = ""
    /\ shGo = "none"
    /\ shBuf = [stdout |-> <<>>, stderr |-> <<>>]
    /\ shEvents = IF shCtx = "canceled" THEN <<"cancel">> ELSE <<>>
    /\ shRet = ShNoRet

\* the caller cancels ctx while runShell runs
ShCancel ==
    /\ shPc # "returned"
    /\ shCtx = "active"
    /\ shCtx' = "canceled"
    /\ shEvents' = Append(shEvents, "cancel")
    /\ UNCHANGED <<shPc, shSession, shWait, shGo, shBuf, shRet>>
    /\ UNCHANGED notSh

\* NewSignerFromKey, ssh.Dial, NewSession: none of them takes ctx
ShConnect ==
    /\ shPc = "connect"
    /\ \E outcome \in {"signer", "dial", "session", "ok"} :
          IF outcome = "ok"
          THEN /\ shPc' = "start"
               /\ UNCHANGED shRet
          ELSE /\ shPc' = "returned"
               /\ shRet' = ShFail(outcome)
    /\ UNCHANGED <<shCtx, shSession, shWait, shGo, shBuf, shEvents>>
    /\ UNCHANGED notSh

\* session.Start, then doneChan is made and the goroutine started
ShStart ==
    /\ shPc = "start"
    /\ \E ok \in BOOLEAN :
          IF ok
          THEN /\ shPc' = "select"
               /\ shSession' = "running"
               /\ shGo' = "waiting"
               /\ UNCHANGED shRet
          ELSE /\ shPc' = "returned"
               /\ shRet' = ShFail("start")
               /\ UNCHANGED <<shSession, shGo>>
    /\ UNCHANGED <<shCtx, shWait, shBuf, shEvents>>
    /\ UNCHANGED notSh

\* the running command writes to stdout or stderr
ShOutput ==
    /\ shSession = "running"
    /\ shPc = "select"
    /\ Len(shBuf.stdout) + Len(shBuf.stderr) < MaxShOut
    /\ \E stream \in {"stdout", "stderr"}, c \in ShChunks :
          shBuf' = [shBuf EXCEPT ![stream] = Append(@, c)]
    /\ UNCHANGED <<shPc, shCtx, shSession, shWait, shGo, shEvents, shRet>>
    /\ UNCHANGED notSh

\* the command ends: session.Wait returns in the goroutine, which then
\* offers the result on the unbuffered doneChan
ShExit ==
    /\ shSession = "running"
    /\ shGo = "waiting"
    /\ \E w \in ShWaitErrs :
          shWait' = w
    /\ shSession' = "exited"
    /\ shGo' = "sending"
    /\ shEvents' = Append(shEvents, "exit")
    /\ UNCHANGED <<shPc, shCtx, shBuf, shRet>>
    /\ UNCHANGED notSh

\* the select takes one of the cases that can proceed, then runShell returns:
\* nil and err on an error, stdoutBuffer.Bytes() and nil otherwise; the
\* deferred session.Close() ends a session that is still running
ShSelect ==
    /\ shPc = "select"
    /\ \E case \in ShReady(shCtx, shGo) :
          LET err == ShSelectErr(case, shWait) IN
          /\ shGo' = IF case = "done" THEN "done" ELSE shGo
          /\ shRet' = IF err # "" THEN ShFail(err)
                      ELSE [isNil |-> FALSE, out |-> shBuf.stdout, err |-> ""]
    /\ shPc' = "returned"
    /\ shSession' = IF shSession = "running" THEN "closed" ELSE shSession
    /\ UNCHANGED <<shCtx, shWait, shBuf, shEvents>>
    /\ UNCHANGED notSh

\* after the return: session.Wait returns in the goroutine because the
\* session was closed; nothing receives from doneChan any more
ShWaitAfterClose ==
    /\ shPc = "returned"
    /\ shSession = "closed"
    /\ shGo = "waiting"
    /\ shGo' = "sending"
    /\ shWait' = "session closed"
    /\ UNCHANGED <<shPc, shCtx, shSession, shBuf, shEvents, shRet>>
    /\ UNCHANGED notSh

-----------------------------------------------------------------------------
(* AwsProvisioner.DeProvision request by request: deleteBucket and         *)
(* deleteStack as the requests they send, each wrapped in retry, the three *)
(* workers running concurrently.                                           *)

\* the keys ListObjectsV2 may list, the versions and delete-markers
\* ListObjectVersions may list
ObjectKeys == {"k1"}

VersionIds == {"v1", "m1"}

\* requests or deletions that fail within one behaviour
MaxTdFaults == 2

\* DeProvision calls in a row
MaxTdRuns == 2

\* a request may fail only while the budget of failures lasts
TdOks == IF tdFaults < MaxTdFaults THEN BOOLEAN ELSE {TRUE}

TdCount(ok) == IF ok THEN tdFaults ELSE tdFaults + 1

TdNoLast == [kind |-> "none", status |-> "none"]

\* the answers of DescribeStacks for a stack in status st: a ValidationError
\* "does not exist", no stacks, or the stack with its status
TdDescribeAnswers(st) ==
    IF st = "absent" THEN {[kind |-> "notexist", status |-> "none"],
                           [kind |-> "empty", status |-> "none"]}
    ELSE IF st = "DELETE_COMPLETE"
    THEN {[kind |-> "notexist", status |-> "none"],
          [kind |-> "status", status |-> st]}
    ELSE {[kind |-> "status", status |-> st]}

TdAfterDescribeFailedIgnored(ans) ==
    CASE ans.kind = "error" -> "error"
      [] ans.kind \in {"notexist", "empty"} -> "nil"
      [] ans.status = "DELETE_COMPLETE" -> "nil"
      [] OTHER -> "again"

\* what the body of deleteStack's loop does with an answer
TdAfterDescribe(ans) ==
    CASE ans.kind = "error" -> "error"
      [] ans.kind \in {"notexist", "empty"} -> "nil"
      [] ans.status = "DELETE_COMPLETE" -> "nil"
      [] ans.status = "DELETE_FAILED" -> "failed"
      [] OTHER -> "again"

NoSuchBucketIsAnError(bucketExists) == FALSE

\* strings.Contains(err.Error(), "NoSuchBucket") on the error of
\* ListObjectsV2: the bucket is not there
NoSuchBucketTolerated(bucketExists) == ~bucketExists

VersionsToDeleteNone(versions) == {}

\* deleteObjects: every listed version and every listed delete-marker
VersionsToDelete(versions) == versions

\* the request a worker's wrapped function starts with
TdFirstPc(t) == IF t = "bucket" THEN "list" ELSE "delete"

\* the wrapped function returned err: one step of retry
TdCallReturns(t, w, err) ==
    LET st == RetryStep(w.rt, err) IN
    IF st.done
    THEN [w EXCEPT !.pc = "done", !.rt = st, !.res = st.result, !.todo = {}]
    ELSE [w EXCEPT !.pc = TdFirstPc(t), !.rt = st, !.todo = {}]

TdWorkerStart(t) ==
    [pc |-> IF t = "bucket" THEN "identity" ELSE "delete",
     rt |-> RetryStart, res |-> NilErr, todo |-> {},
     listed |-> [objects |-> {}, versions |-> {}], last |-> TdNoLast]

TdAllAbsent(bucket, stacks) ==
    /\ ~bucket.exists
    /\ \A n \in StackNames : Gone(stacks[n])

TdIdle ==
    /\ tdBucket = [exists |-> FALSE, objects |-> {}, versions |-> {}]
    /\ tdStacks = [n \in {"bootstrap", "primary"} |-> "absent"]
    /\ tdW = [t \in {"bucket", "bootstrap", "primary"} |-> TdWorkerStart(t)]
    /\ tdBLog = <<>>
    /\ tdFaults = 0
    /\ tdFaults0 = 0
    /\ tdAbsent0 = TRUE
    /\ tdRun = 1
    /\ tdMain = "running"
    /\ tdResult = {}

DetailIdle == RsIdle /\ ShIdle /\ TdIdle

\* DeProvision is called with the bucket and the stacks in any condition
TdInit ==
    /\ tdBucket \in {[exists |-> FALSE, objects |-> {}, versions |-> {}]} \cup
                     [exists : {TRUE}, objects : SUBSET ObjectKeys, versions : SUBSET VersionIds]
    /\ tdStacks \in [StackNames -> {"absent", "CREATE_COMPLETE", "DELETE_FAILED"}]
    /\ tdW = [t \in Tasks |-> TdWorkerStart(t)]
    /\ tdBLog = <<>>
    /\ tdFaults = 0
    /\ tdFaults0 = 0
    /\ tdAbsent0 = TdAllAbsent(tdBucket, tdStacks)
    /\ tdRun = 1
    /\ tdMain = "running"
    /\ tdResult = {}

TdKeep == UNCHANGED <<tdFaults0, tdAbsent0, tdRun, tdMain, tdResult>>

\* the bucket worker: GetCallerIdentity; its error is sent, retry not entered
TdIdentity ==
    /\ tdW["bucket"].pc = "identity"
    /\ \E ok \in TdOks :
          /\ tdW' = [tdW EXCEPT !["bucket"] =
                        IF ok THEN [@ EXCEPT !.pc = "list"]
                        ELSE [@ EXCEPT !.pc = "done", !.res = IoErr("GetCallerIdentity", 0)]]
          /\ tdFaults' = TdCount(ok)
    /\ UNCHANGED <<tdBucket, tdStacks, tdBLog>>
    /\ TdKeep
    /\ UNCHANGED notTd

\* deleteBucket: ListObjectsV2; NoSuchBucket is returned as nil
TdList ==
    /\ tdW["bucket"].pc = "list"
    /\ tdBLog' = <<[op |-> "ListObjectsV2", key |-> ""]>>
    /\ IF ~tdBucket.exists
       THEN /\ tdW' = [tdW EXCEPT !["bucket"] =
                          TdCallReturns("bucket", @,
                              IF NoSuchBucketTolerated(tdBucket.exists) THEN NilErr
                              ELSE IoErr("NoSuchBucket", 0))]
            /\ UNCHANGED tdFaults
       ELSE \E ok \in TdOks :
               /\ tdW' = [tdW EXCEPT !["bucket"] =
                             IF ok
                             THEN [@ EXCEPT !.pc = "objects", !.todo = tdBucket.objects,
                                            !.listed = [objects |-> tdBucket.objects,
                                                        versions |-> {}]]
                             ELSE TdCallReturns("bucket", @, IoErr("ListObjectsV2", 0))]
               /\ tdFaults' = TdCount(ok)
    /\ UNCHANGED <<tdBucket, tdStacks>>
    /\ TdKeep
    /\ UNCHANGED notTd

\* deleteBucket: DeleteObject for the next listed object; an error is logged
TdDeleteObject ==
    /\ tdW["bucket"].pc = "objects"
    /\ \E k \in tdW["bucket"].todo, ok \in TdOks :
          /\ tdBLog' = Append(tdBLog, [op |-> "DeleteObject", key |-> k])
          /\ tdBucket' = IF ok THEN [tdBucket EXCEPT !.objects = @ \ {k}] ELSE tdBucket
          /\ tdW' = [tdW EXCEPT !["bucket"].todo = @ \ {k}]
          /\ tdFaults' = TdCount(ok)
    /\ UNCHANGED tdStacks
    /\ TdKeep
    /\ UNCHANGED notTd

\* deleteBucket: ListObjectVersions once the objects loop is over
TdListVersions ==
    /\ tdW["bucket"].pc = "objects"
    /\ tdW["bucket"].todo = {}
    /\ tdBLog' = Append(tdBLog, [op |-> "ListObjectVersions", key |-> ""])
    /\ \E ok \in TdOks :
          /\ tdW' = [tdW EXCEPT !["bucket"] =
                        IF ok
                        THEN [@ EXCEPT !.pc = "versions",
                                       !.todo = VersionsToDelete(tdBucket.versions),
                                       !.listed = [@ EXCEPT !.versions = tdBucket.versions]]
                        ELSE TdCallReturns("bucket", @, IoErr("ListObjectVersions", 0))]
          /\ tdFaults' = TdCount(ok)
    /\ UNCHANGED <<tdBucket, tdStacks>>
    /\ TdKeep
    /\ UNCHANGED notTd

\* deleteBucket: DeleteObject for the next version or delete-marker; an
\* error is logged
TdDeleteVersion ==
    /\ tdW["bucket"].pc = "versions"
    /\ \E v \in tdW["bucket"].todo, ok \in TdOks :
          /\ tdBLog' = Append(tdBLog, [op |-> "DeleteObjectVersion", key |-> v])
          /\ tdBucket' = IF ok THEN [tdBucket EXCEPT !.versions = @ \ {v}] ELSE tdBucket
          /\ tdW' = [tdW EXCEPT !["bucket"].todo = @ \ {v}]
          /\ tdFaults' = TdCount(ok)
    /\ UNCHANGED tdStacks
    /\ TdKeep
    /\ UNCHANGED notTd

\* deleteBucket: DeleteBucket, refused while the bucket holds anything
TdDeleteBucket ==
    /\ tdW["bucket"].pc = "versions"
    /\ tdW["bucket"].todo = {}
    /\ tdBLog' = Append(tdBLog, [op |-> "DeleteBucket", key |-> ""])
    /\ IF tdBucket.objects # {} \/ tdBucket.versions # {}
       THEN /\ tdW' = [tdW EXCEPT !["bucket"] =
                          TdCallReturns("bucket", @, IoErr("DeleteBucket", 0))]
            /\ UNCHANGED <<tdBucket, tdFaults>>
       ELSE \E ok \in TdOks :
               /\ tdW' = [tdW EXCEPT !["bucket"] =
                             TdCallReturns("bucket", @,
                                 IF ok THEN NilErr ELSE IoErr("DeleteBucket", 0))]
               /\ tdBucket' = IF ok THEN [tdBucket EXCEPT !.exists = FALSE] ELSE tdBucket
               /\ tdFaults' = TdCount(ok)
    /\ UNCHANGED tdStacks
    /\ TdKeep
    /\ UNCHANGED notTd

\* deleteStack: the DeleteStack request
TdDeleteStack(n) ==
    /\ tdW[n].pc = "delete"
    /\ \E ok \in TdOks :
          /\ tdW' = [tdW EXCEPT ![n] =
                        IF ok THEN [@ EXCEPT !.pc = "describe", !.last = TdNoLast]
                        ELSE TdCallReturns(n, [@ EXCEPT !.last = TdNoLast],
                                           IoErr("DeleteStack", 0))]
          /\ tdStacks' = [tdStacks EXCEPT ![n] = AfterDelete(@, ok)]
          /\ tdFaults' = TdCount(ok)
    /\ UNCHANGED <<tdBucket, tdBLog>>
    /\ TdKeep
    /\ UNCHANGED notTd

\* deleteStack: one turn of the loop, DescribeStacks and what follows it
\* (the 10 s sleep on a status that is neither complete nor failed)
TdDescribe(n) ==
    /\ tdW[n].pc = "describe"
    /\ \E ok \in TdOks :
       \E ans \in IF ok THEN TdDescribeAnswers(tdStacks[n])
                   ELSE {[kind |-> "error", status |-> "none"]} :
          LET w == [tdW[n] EXCEPT !.last = ans]
              what == TdAfterDescribe(ans)
          IN  /\ tdW' = [tdW EXCEPT ![n] =
                            CASE what = "nil" -> TdCallReturns(n, w, NilErr)
                              [] what = "error" -> TdCallReturns(n, w, IoErr("DescribeStacks", 0))
                              [] what = "failed" ->
                                    TdCallReturns(n, w, IoErr("stack deletion failed", 0))
                              [] OTHER -> w]
              /\ tdFaults' = TdCount(ok)
    /\ UNCHANGED <<tdBucket, tdStacks, tdBLog>>
    /\ TdKeep
    /\ UNCHANGED notTd

\* CloudFormation ends a deletion: complete, or failed
TdProgress(n) ==
    /\ tdMain = "running"
    /\ tdStacks[n] = "DELETE_IN_PROGRESS"
    /\ \E ok \in TdOks :
          /\ tdStacks' = [tdStacks EXCEPT ![n] =
                             IF ok THEN "DELETE_COMPLETE" ELSE "DELETE_FAILED"]
          /\ tdFaults' = TdCount(ok)
    /\ UNCHANGED <<tdBucket, tdW, tdBLog>>
    /\ TdKeep
    /\ UNCHANGED notTd

\* wg.Wait() is over, the errors are joined and returned
TdReturn ==
    /\ tdMain = "running"
    /\ \A t \in Tasks : tdW[t].pc = "done"
    /\ tdMain' = "done"
    /\ tdResult' = {tdW[t].res : t \in Tasks} \ {NilErr}
    /\ UNCHANGED <<tdBucket, tdStacks, tdW, tdBLog, tdFaults, tdFaults0, tdAbsent0, tdRun>>
    /\ UNCHANGED notTd

\* DeProvision is called again
TdAgain ==
    /\ tdMain = "done"
    /\ tdRun < MaxTdRuns
    /\ tdRun' = tdRun + 1
    /\ tdMain' = "running"
    /\ tdW' = [t \in Tasks |-> TdWorkerStart(t)]
    /\ tdBLog' = <<>>
    /\ tdFaults0' = tdFaults
    /\ tdAbsent0' = TdAllAbsent(tdBucket, tdStacks)
    /\ tdResult' = {}
    /\ UNCHANGED <<tdBucket, tdStacks, tdFaults>>
    /\ UNCHANGED notTd

-----------------------------------------------------------------------------
(* Specifications *)

RetryNext == RetryInvoke

InitRetry == RetryInit /\ DeProvIdle /\ ProvIdle /\ HzIdle /\ RisIdle /\ CsIdle /\ DetailIdle

SpecRetry == InitRetry /\ [][RetryNext]_vars

DeProvNext ==
    \/ CancelCtx
    \/ DpInitFail
    \/ DpSpawn
    \/ BucketIdentity
    \/ \E t \in Tasks : WorkerAttempt(t)
    \/ \E t \in Tasks : WorkerSend(t)
    \/ \E t \in Tasks : WorkerDone(t)
    \/ CollectorReceive
    \/ CollectorFinish
    \/ DpCloseChannel
    \/ DpReturn

InitAwsDeProvision == DeProvInit /\ RetryIdle /\ ProvIdle /\ HzIdle /\ RisIdle /\ CsIdle /\ DetailIdle

SpecAwsDeProvision == InitAwsDeProvision /\ [][DeProvNext]_vars

\* the goroutines of DeProvision are scheduled: a step that can be taken is
\* taken in the end
SpecAwsDeProvisionFair == InitAwsDeProvision /\ [][DeProvNext]_vars /\ WF_vars(DeProvNext)

ProvNext ==
    \/ PvCancelCtx
    \/ PvStart
    \/ PsCreate
    \/ PsPoll
    \/ PvAssets
    \/ PvWaitUpTimeout
    \/ PvWaitUpProbe
    \/ PvInitScript

InitAwsProvision == ProvInit /\ RetryIdle /\ DeProvIdle /\ HzIdle /\ RisIdle /\ CsIdle /\ DetailIdle

SpecAwsProvision == InitAwsProvision /\ [][ProvNext]_vars

HzNext ==
    \/ \E cmd \in {"provision", "deprovision"} : HzCall(cmd)
    \/ HzPInit
    \/ HzPKey
    \/ HzPFirewall
    \/ HzPServer
    \/ HzPStatus
    \/ HzPReady
    \/ HzPScript
    \/ HzDInit
    \/ HzDServer
    \/ HzDKey

InitHetzner == HzInit /\ RetryIdle /\ DeProvIdle /\ ProvIdle /\ RisIdle /\ CsIdle /\ DetailIdle

SpecHetzner == InitHetzner /\ [][HzNext]_vars

RisNext ==
    \/ RisCall
    \/ RisAgain

InitRunInitScript == RisInit /\ RetryIdle /\ DeProvIdle /\ ProvIdle /\ HzIdle /\ CsIdle /\ DetailIdle

SpecRunInitScript == InitRunInitScript /\ [][RisNext]_vars

RsNext ==
    \/ RsSend
    \/ RsPoll

InitAwsRunShell ==
    RsInit /\ ShIdle /\ TdIdle /\ RetryIdle /\ DeProvIdle /\ ProvIdle /\ HzIdle /\ RisIdle /\ CsIdle

SpecAwsRunShell == InitAwsRunShell /\ [][RsNext]_vars

ShNext ==
    \/ ShCancel
    \/ ShConnect
    \/ ShStart
    \/ ShOutput
    \/ ShExit
    \/ ShSelect
    \/ ShWaitAfterClose

InitHzRunShell ==
    ShInit /\ RsIdle /\ TdIdle /\ RetryIdle /\ DeProvIdle /\ ProvIdle /\ HzIdle /\ RisIdle /\ CsIdle

SpecHzRunShell == InitHzRunShell /\ [][ShNext]_vars

\* the same with the Go scheduler's guarantee: runShell's own steps and the
\* goroutine's steps are taken when they can be; the command's exit comes
\* eventually; cancellation and output remain the environment's choice
SpecHzRunShellFair ==
    /\ InitHzRunShell
    /\ [][ShNext]_vars
    /\ WF_vars(ShConnect)
    /\ WF_vars(ShStart)
    /\ WF_vars(ShExit)
    /\ WF_vars(ShSelect)
    /\ WF_vars(ShWaitAfterClose)

TdNext ==
    \/ TdIdentity
    \/ TdList
    \/ TdDeleteObject
    \/ TdListVersions
    \/ TdDeleteVersion
    \/ TdDeleteBucket
    \/ \E n \in StackNames : TdDeleteStack(n)
    \/ \E n \in StackNames : TdDescribe(n)
    \/ \E n \in StackNames : TdProgress(n)
    \/ TdReturn
    \/ TdAgain

InitAwsTeardown ==
    TdInit /\ RsIdle /\ ShIdle /\ RetryIdle /\ DeProvIdle /\ ProvIdle /\ HzIdle /\ RisIdle
        /\ CsIdle

SpecAwsTeardown == InitAwsTeardown /\ [][TdNext]_vars

CsNext ==
    \/ CsStart
    \/ CsPackage
    \/ CsDest
    \/ CsNextFile
    \/ CsReturn

InitCdkSim == CsInit /\ RetryIdle /\ DeProvIdle /\ ProvIdle /\ HzIdle /\ RisIdle /\ DetailIdle

SpecCdkSim == InitCdkSim /\ [][CsNext]_vars

-----------------------------------------------------------------------------
(* C1: if f fails with a non-cancellation error on its first N invocations *)
(* (0 <= N < 20) and succeeds on invocation N+1, retry returns nil and f   *)
(* has been invoked exactly N+1 times.                                     *)
NoCancelPlanned == cancelAt = 0 \/ cancelAt > forced + 1

C1_SucceedsAfterNFailures ==
    (rt.done /\ NoCancelPlanned /\ forced < 20)
        => (rt.result = NilErr /\ calls = forced + 1)

C1_Witness ==
    rt.done /\ NoCancelPlanned /\ forced = 19 /\ calls = 20 /\ rt.result = NilErr

(* C2: if f fails with a non-cancellation error on every invocation        *)
(* (N >= 20), retry returns the error of the last invocation and f has     *)
(* been invoked exactly 20 times, never more.                              *)
C2_ExhaustsBudget ==
    /\ calls <= 20
    /\ (rt.done /\ (cancelAt = 0 \/ cancelAt > 20) /\ forced >= 20)
          => (calls = 20 /\ rt.result = IoErr("op", 20))

C2_Witness ==
    rt.done /\ cancelAt = 0 /\ forced = 21 /\ calls = 20 /\ rt.result.kind = "io"

(* C3: if invocation k of f returns a cancellation error, retry returns    *)
(* that error immediately and f is never invoked again (count = k).        *)
C3_CancellationNotRetried ==
    /\ (cancelAt > 0 /\ cancelAt <= forced + 1) => calls <= cancelAt
    /\ (cancelAt > 0 /\ calls = cancelAt /\ calls <= forced + 1)
          => (rt.done /\ rt.result = CanceledErr("op", cancelAt))

C3_Witness ==
    rt.done /\ cancelAt = 3 /\ calls = 3 /\ rt.result.kind = "canceled"

C3_WitnessFirst ==
    rt.done /\ cancelAt = 1 /\ calls = 1 /\ rt.result.kind = "canceled"

\* the teardown tasks whose worker ended with an error
DpFailedTasks == {t \in Tasks : wk[t].res # NilErr}

\* C4: when AWS DeProvision has run its three workers and returns, exactly
\* one failed task means the combined error holds exactly that task's error
\* while the other two workers ran to their end, called their deletion and
\* left their resource gone; no failed task means the return value is nil.
C4_OneFailureIsReportedAlone ==
    (dpPc = "done" /\ chClosed) =>
        /\ (DpFailedTasks = {}) => (dpResult = <<>> /\ \A u \in Tasks : wk[u].tried /\ ~exists[u])
        /\ \A t \in Tasks :
              (DpFailedTasks = {t}) =>
                  /\ dpResult = <<wk[t].res>>
                  /\ \A u \in Tasks \ {t} :
                        wk[u].pc = "exited" /\ wk[u].tried /\ ~exists[u]

\* C4 witness: the bootstrap stack's deletion failed through all retries and
\* is still there, the bucket and the primary stack are deleted, and the
\* returned error holds the one failure.
C4_Witness ==
    /\ dpPc = "done"
    /\ DpFailedTasks = {"bootstrap"}
    /\ exists["bootstrap"]
    /\ ~exists["bucket"]
    /\ ~exists["primary"]
    /\ dpResult = <<IoErr("bootstrap", 0)>>

\* C4 witness: all three deletions succeeded and DeProvision returned nil.
C4_WitnessAllSucceed ==
    /\ dpPc = "done"
    /\ chClosed
    /\ DpFailedTasks = {}
    /\ \A t \in Tasks : wk[t].tried
    /\ dpResult = <<>>

\* the values of a sequence
Range(seq) == {seq[i] : i \in DOMAIN seq}

\* the Hetzner command that ran is DeProvision, and it got past init
HzDeProvisionReturned ==
    hzPc = "done" /\ hzLog # <<>> /\ hzLog[1] = "DeProvision" /\ hzToken

\* C5: a DeProvision that returns has attempted every teardown task and its
\* returned error reports every task failure, on AWS (three workers) and on
\* Hetzner (server, SSH key).
C5_EveryTaskAttemptedAllFailuresReturned ==
    /\ (dpPc = "done" /\ chClosed) =>
          /\ \A t \in Tasks : wk[t].pc = "exited"
          /\ Range(dpResult) = {wk[t].res : t \in DpFailedTasks}
          /\ Len(dpResult) = Cardinality(DpFailedTasks)
    /\ HzDeProvisionReturned =>
          /\ hzTried = HzTasks
          /\ hzRet = hzFailed

\* C6: a Provision that finds the stack of its id already created deletes it
\* before it issues the create (one delete, then one create), and a
\* successful return does not come from a create that was answered
\* "already exists", i.e. it never hands out the old stack's outputs.
C6_ExistingGroupDeletedBeforeCreate ==
    ("primary" \in preexisting) =>
        /\ \A i \in DOMAIN apiLog :
              (apiLog[i] = <<"CreateStack", "primary">>) =>
                  Cardinality({j \in 1..(i - 1) : apiLog[j] = <<"DeleteStack", "primary">>}) = 1
        /\ (pvPc = "done" /\ pvErr = "") => (createResp["primary"] = "ok")

\* all three fields of a ProvisionResult are non-empty
Populated(res) == res.ServerIP # "" /\ res.ServerWgIp # "" /\ res.ServerPublicKey # ""

\* C7: every return of Provision, on AWS and on Hetzner, has either a non-nil
\* error and the empty result, or a nil error and all three result fields
\* populated.
C7_ResultNeverPartial ==
    /\ (pvPc = "done") =>
          \/ pvErr # "" /\ pvResult = ZeroResult
          \/ pvErr = "" /\ Populated(pvResult)
    /\ (hzPc = "done" /\ hzLog # <<>> /\ hzLog[1] = "Provision") =>
          \/ hzErr # "" /\ hzResult = ZeroResult
          \/ hzErr = "" /\ Populated(hzResult)

\* C8: a Provision whose asset publication ran over a manifest holding an
\* asset with a packaging other than "zip" or "file" returns an error.
C8_BadPackagingFailsProvision ==
    (/\ pvPc = "done"
     /\ <<"Simulate", "assets">> \in Range(apiLog)
     /\ \E a \in Assets : ~PackageOk(manifest[a]))
        => pvErr # ""

\* C9: the readiness loop gives up after the readiness timeout: on AWS the
\* time spent in waitUntilUp stays within the timeout plus one probe and one
\* sleep; on Hetzner the sleeps of the readiness loop stay within 5 minutes
\* (300 s).
C9_ReadinessGateTimesOut ==
    /\ (pvPc = "wait_up") => (elapsed <= ReadinessTimeout + MaxShellTicks + 1)
    /\ (hzPc = "p_ready") => (hzProbes * HzProbeSleep <= 300)

\* C10: a CreateStack answered "already exists" takes provisionStack to its
\* poll loop, with no error and the poll loop at its start, in the same way
\* as an accepted create.
C10_AlreadyExistsProceedsToPoll ==
    [][(pvPc = "ps_create" /\ createResp'[phase] \in {"ok", "AlreadyExistsException"})
          => (pvPc' = "ps_poll" /\ pvErr' = "" /\ pvResult' = pvResult /\ polls' = 0
              /\ phase' = phase /\ stackOutput' = stackOutput)]_vars

\* C10 witness: the primary stack's create was answered "already exists" and
\* provisionStack is in its poll loop.
C10_Witness ==
    /\ pvPc = "ps_poll"
    /\ phase = "primary"
    /\ createResp["primary"] = "AlreadyExistsException"
    /\ pvErr = ""

\* the DeleteStack requests issued so far for a stack, as positions of apiLog
DeletesOf(name) == {i \in DOMAIN apiLog : apiLog[i] = <<"DeleteStack", name>>}

\* C11: when the first terminal status provisionStack sees is a failure-class
\* status, Provision returns an error with exactly one DeleteStack issued
\* for that stack, issued last (before the return, none after it by
\* Provision); while the statuses seen are in progress, provisionStack stays
\* in its poll loop without a delete or an error.
C11_FailureStatusDeletesOnce ==
    /\ (pvPc = "done" /\ described.status \in FailureClass) =>
          /\ pvErr # ""
          /\ pvResult = ZeroResult
          /\ Cardinality(DeletesOf(phase)) = 1
          /\ apiLog[Len(apiLog)] = <<"DeleteStack", phase>>
    /\ (pvPc = "ps_poll" /\ described.status \in InProgress) =>
          /\ DeletesOf(phase) = {}
          /\ pvErr = ""

\* C11 witness: the primary stack was seen rolled back; Provision returned
\* the error after the one delete.
C11_Witness ==
    /\ pvPc = "done"
    /\ phase = "primary"
    /\ described.status = "ROLLBACK_COMPLETE"
    /\ pvErr = "stack creation failed"
    /\ Cardinality(DeletesOf("primary")) = 1

\* C11 witness: an in-progress status was seen and the loop polls on.
C11_WitnessPolling ==
    /\ pvPc = "ps_poll"
    /\ phase = "primary"
    /\ described.status = "CREATE_IN_PROGRESS"
    /\ polls = 2

\* provisionStack returned success for the primary stack and Provision has
\* not yet moved past the steps that follow
PrimaryStackReturnedOk ==
    phase = "primary" /\ described.status = "CREATE_COMPLETE" /\ pvPc \in {"wait_up", "init_script"}

\* C12: when the describe response shows the primary stack created,
\* provisionStack returns a map with exactly the keys and values of that
\* response's outputs, and has issued no DeleteStack for the stack.
C12_CreatedReturnsReportedOutputs ==
    PrimaryStackReturnedOk =>
        /\ DOMAIN stackOutput = {described.outputs[i].k : i \in DOMAIN described.outputs}
        /\ \A i \in DOMAIN described.outputs :
              stackOutput[described.outputs[i].k] = described.outputs[i].v
        /\ DeletesOf("primary") = {}
        /\ pvErr = ""

\* C12 witness: the response carried two outputs and both are in the map.
C12_Witness ==
    /\ PrimaryStackReturnedOk
    /\ Len(described.outputs) = 2
    /\ stackOutput["InstanceId"] = "i-0abc"
    /\ stackOutput["ServerIp"] = "203.0.113.10"

\* how often the sentinel occurs in a stdout
CountSentinel(text) == Cardinality({i \in DOMAIN text : text[i] = "SEP"})

\* the text after the one sentinel of a stdout
AfterSentinel(text) ==
    LET at == CHOOSE i \in DOMAIN text : text[i] = "SEP"
    IN  SubSeq(text, at + 1, Len(text))

\* the executor returned no error and a stdout with exactly one sentinel
OneSentinel == risShell.err = "" /\ CountSentinel(risShell.stdout) = 1

C14_WrongSentinelCountIsMalformed ==
    (risPc = "returned" /\ risShell.err = "" /\ CountSentinel(risShell.stdout) # 1) =>
        /\ risOut.err = "init script did not return expected output"
        /\ risOut.nilOut

\* C14 witness: two sentinels, a JSON object after the first.
C14_Witness ==
    /\ risPc = "returned"
    /\ risShell.stdout = <<"SEP", "JSONKEY", "SEP">>
    /\ risOut.err = "init script did not return expected output"

\* C14 witness: no sentinel at all.
C14_WitnessNone ==
    /\ risPc = "returned"
    /\ risShell = [stdout |-> <<"noise", "JSONKEY">>, err |-> ""]
    /\ risOut.nilOut

\* C15: when the init script's stdout holds the sentinel exactly once and
\* the text after it is not valid JSON, RunInitScript returns an error, and
\* Provision returns an error with the empty ProvisionResult.
C15_InvalidJsonFailsProvision ==
    /\ (risPc = "returned" /\ OneSentinel /\ ~JsonValid(AfterSentinel(risShell.stdout))) =>
          risOut.err # ""
    /\ (pvPc = "done" /\ CountSentinel(stdout) = 1 /\ ~JsonValid(AfterSentinel(stdout))) =>
          (pvErr # "" /\ pvResult = ZeroResult)

\* C15 witness: Provision ran the init script, whose stdout ended in a JSON
\* object followed by more text, and returned the error.
C15_Witness ==
    /\ pvPc = "done"
    /\ stdout = <<"SEP", "JSONKEY", "noise">>
    /\ pvErr = "json"
    /\ pvResult = ZeroResult

\* C15 witness: RunInitScript on its own, nothing after the sentinel.
C15_WitnessEmptyTail ==
    /\ risPc = "returned"
    /\ risShell = [stdout |-> <<"noise", "SEP">>, err |-> ""]
    /\ risOut.err = "json"

\* C16: when innerUploadAssets has run to its end, every file that packaged
\* was packaged once, every object put for it holds the bytes of that one
\* packaging, each of its destinations whose role and upload did not fail
\* holds the object (whatever happened at the file's other destination), and
\* no file was left out: each was packaged or failed to package.
C16_DestinationsAreIndependent ==
    (csPc = "done" /\ csRan) =>
        /\ csFiles = {}
        /\ \A a \in Assets :
              \/ a \in csPackFailed
              \/ /\ Cardinality({i \in DOMAIN csPackLog : csPackLog[i] = a}) = 1
                 /\ \A put \in csPuts :
                       (put[1] = a) => (put[3] = PackageBytes(csManifest[a], a))
                 /\ \A d \in Dests :
                       (<<a, d>> \notin csFailed) =>
                           (<<a, d, PackageBytes(csManifest[a], a)>> \in csPuts)

\* C16 witness: the first asset's upload to d1 failed, its upload to d2 was
\* made, and the second asset went to both destinations.
C16_Witness ==
    /\ csPc = "done"
    /\ csFailed = {<<"a1", "d1">>}
    /\ <<"a1", "d2", <<"zip", "a1">>>> \in csPuts
    /\ <<"a2", "d1", <<"zip", "a2">>>> \in csPuts
    /\ <<"a2", "d2", <<"zip", "a2">>>> \in csPuts

\* C16 witness: both destinations of one asset hold the same bytes.
C16_WitnessSameBytes ==
    /\ csPc = "done"
    /\ csFailed = {}
    /\ \E bytes \in {<<"file", "a1">>} : {<<"a1", "d1", bytes>>, <<"a1", "d2", bytes>>} \subseteq csPuts

\* the end-to-end scenario: no stack of either name to begin with, both
\* creates accepted, the primary stack seen pending and then created with a
\* public IP among its outputs, the host up at the first probe, and the
\* script printing free text, the sentinel and the JSON object with the key
EndToEndScenario ==
    /\ preexisting = {}
    /\ createResp = [n \in StackNames |-> "ok"]
    /\ described.before = "CREATE_IN_PROGRESS"
    /\ described.status = "CREATE_COMPLETE"
    /\ Lookup(OutputMap(described.outputs), "ServerIp") = "203.0.113.10"
    /\ firstProbe = "up"
    /\ stdout = <<"noise", "SEP", "JSONKEY">>
    /\ pvCtx = "active"

\* C17: in the end-to-end scenario Provision returns a nil error with the
\* backend-reported public IP, the server tunnel address 172.30.0.1 and the
\* server public key SERVERKEY, and has issued no DeleteStack.
C17_EndToEndSuccess ==
    (pvPc = "done" /\ EndToEndScenario) =>
        /\ pvErr = ""
        /\ pvResult = [ServerIP |-> "203.0.113.10", ServerWgIp |-> "172.30.0.1",
                       ServerPublicKey |-> "SERVERKEY"]
        /\ \A n \in StackNames : DeletesOf(n) = {}

\* C17 witness: the scenario ran to its end.
C17_Witness ==
    /\ pvPc = "done"
    /\ EndToEndScenario
    /\ pvResult.ServerPublicKey = "SERVERKEY"
    /\ apiLog[Len(apiLog)] = <<"RunInitScript", "primary">>

\* C18: once ctx is cancelled no poll loop of Provision begins another turn
\* (the wait and DescribeStacks of provisionStack, the probe of
\* waitUntilUp): the loop returns instead.
C18_NoPollAfterCancellation == lateTurns = 0

\* C18, the weaker reading that lets the turn that meets the cancellation
\* pass: no loop begins a second turn after the cancellation.
C18_AtMostOneLateTurn == lateTurns <= 1

\* C19: a teardown task whose last call failed with the deadline error is
\* not waiting to be called again by retry, and the deadline error of a task
\* is in what DeProvision returns.
C19_DeadlineNotRetried ==
    /\ \A t \in Tasks :
          (wk[t].pc = "retry") => (wk[t].rt.lastError.kind # "deadline")
    /\ (dpPc = "done" /\ chClosed) =>
          \A t \in Tasks : (wk[t].res.kind = "deadline") => (wk[t].res \in Range(dpResult))

\* the text of err holds reason (err being reason alone or reason after the
\* fixed message)
Mentions(err, reason) ==
    \E pre \in {"", "stack creation failed: ", "stack creation failed, reason: "} :
        err = pre \o reason

\* C20: when provisionStack gave up on a failure-class status and worked out
\* a failure reason (status reason or CREATE_FAILED events), the error
\* Provision returns holds that reason.
C20_ErrorCarriesFailureReason ==
    (pvPc = "done" /\ described.status \in FailureClass /\ described.reason # "") =>
        Mentions(pvErr, described.reason)

\* the terminal states of a command invocation
TerminalStatuses == {"Success", "Failed", "TimedOut", "Cancelling", "Cancelled"}

\* C21: the status poll of the agent-dispatch runShell goes on while the
\* command is reported in a non-terminal state and stops at the first
\* terminal one; runShell returns a nil error exactly when that state is
\* Success with response code 0: Success with another code, Failed,
\* TimedOut, Cancelling and Cancelled all return an error.
C21_PollStopsAtFirstTerminalState ==
    /\ \A i \in 1..(Len(rsSeen) - 1) : rsSeen[i] \notin TerminalStatuses
    /\ (rsPc = "poll" /\ rsSeen # <<>>) => (rsSeen[Len(rsSeen)] \notin TerminalStatuses)
    /\ (rsPc = "returned") =>
          (rsRet.err = "" <=>
              /\ rsSeen # <<>>
              /\ rsSeen[Len(rsSeen)] = "Success"
              /\ rsCode = 0)

\* C21 witness: after two non-terminal reports the command is reported
\* Success with code 0 and runShell returns its output and nil.
C21_Witness ==
    /\ rsPc = "returned"
    /\ rsSeen = <<"Pending", "InProgress", "Success">>
    /\ rsCode = 0
    /\ rsRet = [stdout |-> "1", stderr |-> "", err |-> ""]

\* C21 witness: the command is reported Cancelling and runShell returns an
\* error at once.
C21_WitnessCancelling ==
    /\ rsPc = "returned"
    /\ rsSeen = <<"InProgress", "Cancelling">>
    /\ rsRet.err = "command was cancelled"

\* C21 witness: Success with a nonzero response code is an error.
C21_WitnessNonZero ==
    /\ rsPc = "returned"
    /\ rsSeen = <<"Success">>
    /\ rsCode = 1
    /\ rsRet.err = "command failed"

\* C22: both runShell variants return the stdout and stderr captured so far
\* on every return, also when the remote command fails, is cancelled or a
\* status query fails.  Stated for the SSH variant: whenever runShell has
\* returned, the stdout it returned is what stdoutBuffer holds.
C22_CapturedOutputAlwaysReturned ==
    (shPc = "returned" /\ shBuf.stdout # <<>>) =>
        (~shRet.isNil /\ shRet.out = shBuf.stdout)

\* runShell returned from the select
ViaSelect == shPc = "returned" /\ shGo # "none"

\* what runShell returns when the select takes the session's result
SessionResult ==
    IF shWait = "" THEN [isNil |-> FALSE, out |-> shBuf.stdout, err |-> ""]
    ELSE ShFail(shWait)

\* C23 as stated: whichever of cancellation and session completion happened
\* first decides what the direct-session runShell returns: the cancellation
\* error in the one case, the session's own result in the other.
C23_FirstEventDecides ==
    (ViaSelect /\ shEvents # <<>>) =>
        IF shEvents[1] = "cancel" THEN shRet = ShFail("context canceled")
        ELSE shRet = SessionResult

\* C23: runShell returns from the select with the cancellation error, without
\* waiting for the session, when ctx is cancelled and the session has not
\* completed; with the session's own result when the session has completed
\* and ctx is not cancelled; and with either of the two when both have
\* happened by the time the select runs.
C23_SelectRace ==
    ViaSelect =>
        /\ ("exit" \notin Range(shEvents)) => (shRet = ShFail("context canceled"))
        /\ ("cancel" \notin Range(shEvents)) => (shRet = SessionResult)
        /\ shRet \in {ShFail("context canceled"), SessionResult}
        /\ (shRet.err = "context canceled") => (shCtx = "canceled")

\* C23 witness: ctx is cancelled while the command runs and runShell returns
\* the cancellation error with the session not completed.
C23_Witness ==
    /\ ViaSelect
    /\ shEvents = <<"cancel">>
    /\ shSession = "closed"
    /\ shBuf.stdout = <<"a">>
    /\ shRet = ShFail("context canceled")

\* C23 witness: the session completed, then ctx was cancelled, and the select
\* took the cancellation.
C23_WitnessBothReady ==
    /\ ViaSelect
    /\ shEvents = <<"exit", "cancel">>
    /\ shWait = ""
    /\ shRet = ShFail("context canceled")

\* C23 witness: the session completed with ctx never cancelled.
C23_WitnessSessionOnly ==
    /\ ViaSelect
    /\ shEvents = <<"exit">>
    /\ shRet = [isNil |-> FALSE, out |-> <<"a", "b">>, err |-> ""]

\* the answers of DescribeStacks on which the deletion counts as done
DeletedAnswer(ans) ==
    \/ ans.kind \in {"notexist", "empty"}
    \/ ans.kind = "status" /\ ans.status = "DELETE_COMPLETE"

\* the answers on which the deletion counts as failed, with the error
FatalAnswer(ans) ==
    \/ ans.kind = "error"
    \/ ans.kind = "status" /\ ans.status = "DELETE_FAILED"

FatalError(ans) ==
    IF ans.kind = "error" THEN IoErr("DescribeStacks", 0)
    ELSE IoErr("stack deletion failed", 0)

\* C24: after the delete was issued, deleteStack's poll loop returns nil when
\* the stack is reported DELETE_COMPLETE, when describe returns no stacks and
\* when describe fails with the "does not exist" validation error; it
\* returns an error on DELETE_FAILED and on any other describe error; on
\* any other status it polls again.
C24_DeleteStackPollOutcomes ==
    \A n \in StackNames :
        LET w == tdW[n] IN
        /\ DeletedAnswer(w.last) =>
              (w.pc = "done" /\ w.res = NilErr /\ w.rt.result = NilErr)
        /\ FatalAnswer(w.last) =>
              (w.pc = "delete" /\ w.rt.lastError = FatalError(w.last))
        /\ (w.last.kind # "none" /\ ~DeletedAnswer(w.last) /\ ~FatalAnswer(w.last)) =>
              (w.pc = "describe")
        /\ (w.pc = "describe" /\ w.last.kind # "none") =>
              (w.last.kind = "status" /\ w.last.status = "DELETE_IN_PROGRESS")

\* C24 witness: the stack was polled while in progress, then reported
\* DELETE_FAILED, and deleteStack returned the error to retry.
C24_Witness ==
    /\ tdStacks["primary"] = "DELETE_FAILED"
    /\ tdW["primary"].last = [kind |-> "status", status |-> "DELETE_FAILED"]
    /\ tdW["primary"].pc = "delete"
    /\ tdW["primary"].rt.retries = RetryBudget - 1
    /\ tdW["primary"].rt.lastError = IoErr("stack deletion failed", 0)

\* C24 witness: describe failed with "does not exist" and deleteStack
\* returned nil.
C24_WitnessNotExist ==
    /\ tdW["bootstrap"].last = [kind |-> "notexist", status |-> "none"]
    /\ tdW["bootstrap"].pc = "done"
    /\ tdW["bootstrap"].res = NilErr

\* C24 witness: the stack is in progress and the loop goes on polling.
C24_WitnessPolling ==
    /\ tdW["primary"].last = [kind |-> "status", status |-> "DELETE_IN_PROGRESS"]
    /\ tdW["primary"].pc = "describe"

\* the phase of deleteBucket a request belongs to
PhaseOf(op) ==
    CASE op = "ListObjectsV2" -> 0
      [] op = "DeleteObject" -> 1
      [] op = "ListObjectVersions" -> 2
      [] op = "DeleteObjectVersion" -> 3
      [] OTHER -> 4

KeysOf(op) == {tdBLog[i].key : i \in {j \in DOMAIN tdBLog : tdBLog[j].op = op}}

BucketDeleteIssued == \E i \in DOMAIN tdBLog : tdBLog[i].op = "DeleteBucket"

\* C25: within one deleteBucket call the deletes of the current objects come
\* first, then the deletes of the listed versions and delete-markers, and
\* the bucket delete comes last, once, after a delete was attempted for
\* every listed object, version and marker; when the bucket delete fails
\* the error goes back to retry, which runs the sequence again from the
\* listing.
C25_BucketDeletedLast ==
    /\ \A i, j \in DOMAIN tdBLog :
          (i < j) => (PhaseOf(tdBLog[i].op) <= PhaseOf(tdBLog[j].op))
    /\ Cardinality({i \in DOMAIN tdBLog : tdBLog[i].op = "DeleteBucket"}) <= 1
    /\ BucketDeleteIssued =>
          /\ KeysOf("DeleteObject") = tdW["bucket"].listed.objects
          /\ KeysOf("DeleteObjectVersion") = tdW["bucket"].listed.versions
    /\ (BucketDeleteIssued /\ tdBucket.exists /\ tdMain = "running") =>
          /\ tdW["bucket"].pc = "list"
          /\ tdW["bucket"].rt.lastError = IoErr("DeleteBucket", 0)

\* C25 witness: one object, one version and one marker were listed, a delete
\* was sent for each in that order of phases, the bucket delete failed, and
\* retry is about to call deleteBucket again.
C25_Witness ==
    /\ Len(tdBLog) = 6
    /\ tdBLog[2] = [op |-> "DeleteObject", key |-> "k1"]
    /\ tdBLog[3].op = "ListObjectVersions"
    /\ KeysOf("DeleteObjectVersion") = {"v1", "m1"}
    /\ tdBLog[6].op = "DeleteBucket"
    /\ tdBucket.exists
    /\ tdW["bucket"].pc = "list"
    /\ tdW["bucket"].rt.retries = RetryBudget - 1

\* C25 witness: the second call of deleteBucket, after the first one's bucket
\* delete failed, deleted the bucket.
C25_WitnessSecondCall ==
    /\ tdRun = 1
    /\ tdW["bucket"].rt.lastError = IoErr("DeleteBucket", 0)
    /\ tdW["bucket"].pc = "done"
    /\ tdW["bucket"].res = NilErr
    /\ ~tdBucket.exists
    /\ BucketDeleteIssued

NoFaultThisRun == tdFaults = tdFaults0

\* C26: DeProvision called with the asset bucket and both stacks absent
\* returns nil, sending no delete request for the bucket; and DeProvision
\* called a second time in a row returns nil (no request failing for a
\* reason other than the absence of what it names).
C26_DeProvisionRepeatable ==
    /\ tdAbsent0 =>
          \A i \in DOMAIN tdBLog : tdBLog[i].op = "ListObjectsV2"
    /\ (tdMain = "done" /\ NoFaultThisRun /\ (tdAbsent0 \/ tdRun >= 2)) =>
          (tdResult = {} /\ TdAllAbsent(tdBucket, tdStacks))

\* C26 witness: the second DeProvision in a row, everything absent when it
\* was called, has returned nil.
C26_Witness ==
    /\ tdRun = 2
    /\ tdAbsent0
    /\ tdMain = "done"
    /\ NoFaultThisRun
    /\ tdBLog = <<[op |-> "ListObjectsV2", key |-> ""]>>
    /\ tdResult = {}

\* C26 witness: the first DeProvision, called with nothing to tear down.
C26_WitnessFirstRun ==
    /\ tdRun = 1
    /\ tdAbsent0
    /\ tdMain = "done"
    /\ tdFaults = 0
    /\ tdResult = {}

\* C26 witness: a second DeProvision after a first one that failed.
C26_WitnessAfterFailure ==
    /\ tdRun = 2
    /\ ~tdAbsent0
    /\ tdMain = "done"
    /\ NoFaultThisRun
    /\ tdResult = {}

\* C27: after createOrUpdateFirewall has succeeded for id and the requested
\* port, the firewall named id has exactly the rules computed for this run
\* (UDP on the requested WireGuard port, TCP on 22), whether it was created
\* now or existed before with other rules.
C27_FirewallHasThisRunsRules ==
    (hzPc = "p_server") => (hzFirewall = [present |-> TRUE, port |-> ArgWgPort])

PutsOf(a) == {put \in csPuts : put[1] = a}

\* C28: in innerUploadAssets an asset whose packaging fails (unknown
\* packaging value, unreadable file or directory) is uploaded to none of its
\* destinations, while every other asset of the manifest is still packaged
\* and uploaded to each of its destinations (those whose role and upload
\* do not fail).
C28_PackagingFailureIsolated ==
    /\ \A a \in csPackFailed : PutsOf(a) = {}
    /\ (csPc = "done" /\ csRan) =>
          \A a \in Assets \ csPackFailed :
              /\ a \in Range(csPackLog)
              /\ \A d \in Dests :
                    \/ <<a, d>> \in csFailed
                    \/ \E put \in PutsOf(a) : put[2] = d

\* C28 witness: a2 has an unknown packaging value; a1 was packaged and
\* uploaded to both destinations.
C28_Witness ==
    /\ csPc = "done"
    /\ csRan
    /\ ~PackageOk(csManifest["a2"])
    /\ csPackFailed = {"a2"}
    /\ csFailed = {}
    /\ {put[2] : put \in PutsOf("a1")} = Dests

\* C28 witness: a1 could not be read; a2 was uploaded to both destinations.
C28_WitnessUnreadable ==
    /\ csPc = "done"
    /\ PackageOk(csManifest["a1"])
    /\ csPackFailed = {"a1"}
    /\ csFailed = {}
    /\ {put[2] : put \in PutsOf("a2")} = Dests

\* C29: AWS Provision is one sequential pipeline in which a step starts only
\* after the step before it succeeded; in particular the create of the
\* primary stack is submitted only after asset publication succeeded
\* (Simulate returned nil).
C29_NoStepAfterFailedStep ==
    (<<"CreateStack", "primary">> \in Range(apiLog)) => (simulateErr = "")

\* C30: every call of RunInitScript generates a new random sentinel, so the
\* sentinels of two provisioning runs differ.
C30_SentinelsDiffer ==
    \A i, j \in DOMAIN risSentinels : (i # j) => (risSentinels[i] # risSentinels[j])

\* the workers that have sent their value
DpSent == {t \in Tasks : wk[t].pc \in {"sent", "exited"}}

\* the fan-in of DeProvision, state by state: a worker about to send finds
\* the channel open and with room; the channel never holds more values than
\* workers have sent; the channel is closed only after every worker has
\* sent and left; the caller has the error list only after the collector
\* has finished on the drained channel, with one entry per failed worker
DpFanInSafe ==
    /\ \A t \in Tasks :
          (wk[t].pc = "send") => (~chClosed /\ Len(errorsChannel) < NumThreads)
    /\ Len(errorsChannel) <= Cardinality(DpSent)
    /\ chClosed => (\A t \in Tasks : wk[t].pc = "exited")
    /\ errsCollectDone => (chClosed /\ errorsChannel = <<>>)
    /\ (dpPc = "done" /\ chClosed) =>
          /\ errsCollectDone
          /\ dpResult = errs
          /\ Len(dpResult) = Cardinality(DpFailedTasks)
          /\ Range(dpResult) = {wk[t].res : t \in DpFailedTasks}

\* the error list changes only when the collector takes a value off the
\* channel
DpErrsWrittenByCollector ==
    (errs' # errs) => (errorsChannel # <<>> /\ errorsChannel' = Tail(errorsChannel))

\* C31: in every interleaving of DeProvision each of the three workers sends
\* exactly one value on errorsChannel (the bucket worker also when
\* GetCallerIdentity fails), no send blocks or meets a closed channel, errs
\* is written by the collector only and read by the caller only after the
\* collector has finished, and DeProvision returns.
C31_FanInProtocol ==
    /\ []DpFanInSafe
    /\ [][DpErrsWrittenByCollector]_vars
    /\ <>(dpPc = "done")

\* C31 witness: GetCallerIdentity failed, the bucket worker sent that error
\* as its one value, all three workers have left and DeProvision returned
\* the joined errors.
C31_Witness ==
    /\ dpPc = "done"
    /\ errsCollectDone
    /\ wk["bucket"].res = IoErr("sts", 0)
    /\ ~wk["bucket"].tried
    /\ \A t \in Tasks : wk[t].pc = "exited"
    /\ IoErr("sts", 0) \in Range(dpResult)

\* C31 witness: all three values are in the channel at once, none received
\* yet.
C31_WitnessFullChannel ==
    /\ Len(errorsChannel) = NumThreads
    /\ ~chClosed

\* the create request of the primary stack was accepted, or refused with
\* AlreadyExistsException and tolerated
PrimaryCreateWentThrough ==
    /\ <<"CreateStack", "primary">> \in Range(apiLog)
    /\ createResp["primary"] \in {"ok", "AlreadyExistsException"}

\* C32: whenever Provision returns an error after the create of the primary
\* stack went through (describe error, failure-class status, readiness
\* timeout, init-script failure), a DeleteStack for the primary stack was
\* issued before the return; when Provision returns success none was.
C32_LateFailureCleansUp ==
    (pvPc = "done" /\ PrimaryCreateWentThrough) =>
        IF pvErr # ""
        THEN /\ DeletesOf("primary") # {}
             /\ apiLog[Len(apiLog)] = <<"DeleteStack", "primary">>
        ELSE DeletesOf("primary") = {}

\* C32 witness: the readiness probe timed out after the primary stack was
\* created; the stack's delete was issued and the timeout returned.
C32_Witness ==
    /\ pvPc = "done"
    /\ createResp["primary"] = "ok"
    /\ described.status = "CREATE_COMPLETE"
    /\ firstProbe = "down"
    /\ stdout = <<>>
    /\ pvErr = "timeout: command failed"
    /\ apiLog[Len(apiLog)] = <<"DeleteStack", "primary">>

\* C32 witness: the init script's output was malformed; the stack's delete
\* was issued.
C32_WitnessInitScript ==
    /\ pvPc = "done"
    /\ PrimaryCreateWentThrough
    /\ pvErr = "init script did not return expected output"
    /\ Cardinality(DeletesOf("primary")) = 1

\* C32 witness: Provision succeeded on a stack that existed already and no
\* delete was issued.
C32_WitnessSuccess ==
    /\ pvPc = "done"
    /\ createResp["primary"] = "AlreadyExistsException"
    /\ pvErr = ""
    /\ DeletesOf("primary") = {}

\* C33: when the remote execution of the init script ends in failure (the
\* command could not be sent, ended failed, timed out or cancelled, or with
\* a nonzero response code), Provision returns an error and the empty
\* ProvisionResult, whatever the captured stdout holds.
C33_ShellFailureFailsProvision ==
    (pvPc = "done" /\ shellErr \notin {"none", ""}) =>
        (pvErr # "" /\ pvResult = ZeroResult)

\* C34: when a Hetzner DeProvision returns nil right after a successful
\* Provision of the same id, nothing Provision created under that name is
\* left on the account: no server, no SSH key, no firewall.
C34_TeardownRemovesAllOfProvision ==
    (HzDeProvisionReturned /\ hzErr = "" /\ hzPrev = "provisioned") =>
        (hzServer = "absent" /\ ~hzKey /\ ~hzFirewall.present)

\* C35: once runShell has returned, the goroutine that waits for the session
\* (if one was started) eventually ends: its send on doneChan is received
\* or it never has to send, in every interleaving.
C35_WaiterGoroutineEnds ==
    [](shPc = "returned" => <>(shGo \in {"none", "done"}))
====
